---- MODULE Spec2Model ----
(***************************************************************************)
(* lmr_analyzer: the haversine function, the distance-mode dispatcher      *)
(* get_distance (utils.py and utilities.py) and its OSM requests, the      *)
(* Route entity (route.py) with its sequences, cached metrics, sequence    *)
(* adherence, vehicle and bounding boxes, the Package, Stop, analysis and  *)
(* DistanceMatrix objects with the support matrix file, and the script     *)
(* fetch_osm_dd.py that fills the distance CSV.                            *)
(***************************************************************************)
EXTENDS Integers, Sequences, FiniteSets, TLC

(***************************************************************************)
(* Bounds of the model.                                                    *)
(***************************************************************************)
\* longest sequence handed to set_planned_sequence / set_actual_sequence
MaxLen == 2
\* number of per-kind blocks (a set_*_sequence call, or the planned or the
\* actual half of an evaluate_* call) the caller runs in one behaviour
MaxBlocks == 4
\* largest number of packages held by one stop
MaxPackages == 2
\* the most routes of an analysis
MaxRoutes == 2
\* longest list of distances assigned to a DistanceMatrix
MaxDistances == 3

\* longest CSV file, in rows after the header
MaxRows == 3

(***************************************************************************)
(* Numbers.  A float is modelled as an exact rational <<n, d>> with d > 0, *)
(* in lowest terms; <<0, 0>> is NaN and <<1, 0>> / <<-1, 0>> are +inf/-inf *)
(* (the IEEE values numpy produces instead of raising).                    *)
(***************************************************************************)
\* Python evaluates the arguments of a call once, before the body runs:
\* F applied to the value of a (and of b)
ByValue(F(_), a) == CHOOSE r \in {F(x) : x \in {a}} : TRUE
ByValue2(F(_, _), a, b) == CHOOSE r \in {F(x, y) : x \in {a}, y \in {b}} : TRUE

Abs(x) == IF x < 0 THEN -x ELSE x

RECURSIVE Gcd(_, _)
Gcd(x, y) == IF y = 0 THEN x ELSE Gcd(y, x % y)

Sign(x) == IF x > 0 THEN 1 ELSE IF x < 0 THEN -1 ELSE 0

NaN == <<0, 0>>
Inf == <<1, 0>>
Zero == <<0, 1>>
One == <<1, 1>>

Rat(n, d) ==
    IF d = 0 THEN <<Sign(n), 0>>
    ELSE LET g == Gcd(Abs(n), Abs(d))
             s == Sign(d)
         IN  <<s * (n \div g), s * (d \div g)>>

Num(n) == <<n, 1>>
IsNaN(x) == x = NaN
IsFinite(x) == x[2] # 0
IsZero(x) == x[2] # 0 /\ x[1] = 0

\* x + y in float arithmetic (inf + -inf and anything with NaN give NaN)
NumAdd(x, y) ==
    IF IsNaN(x) \/ IsNaN(y) THEN NaN
    ELSE IF ~IsFinite(x) /\ ~IsFinite(y) THEN (IF x = y THEN x ELSE NaN)
    ELSE IF ~IsFinite(x) THEN x
    ELSE IF ~IsFinite(y) THEN y
    ELSE LET g == Gcd(x[2], y[2])
             l == (x[2] \div g) * y[2]
         IN  Rat(x[1] * (l \div x[2]) + y[1] * (l \div y[2]), l)

\* x / y as numpy evaluates it: a zero divisor yields inf or NaN with a
\* RuntimeWarning, never an exception
NumDiv(x, y) ==
    IF IsNaN(x) \/ IsNaN(y) THEN NaN
    ELSE IF ~IsFinite(x) /\ ~IsFinite(y) THEN NaN
    ELSE IF ~IsFinite(x) THEN <<x[1] * (IF y[1] < 0 THEN -1 ELSE 1), 0>>
    ELSE IF ~IsFinite(y) THEN Zero
    ELSE IF y[1] = 0 THEN <<Sign(x[1]), 0>>
    ELSE Rat(x[1] * y[2], x[2] * y[1])

\* x <= y on non-NaN numbers
NumLeq(x, y) ==
    IF ~IsFinite(x) THEN x[1] < 0 \/ x = y
    ELSE IF ~IsFinite(y) THEN y[1] > 0
    ELSE x[1] * y[2] <= y[1] * x[2]

HasNaN(arr) == \E i \in 1..Len(arr) : IsNaN(arr[i])

RECURSIVE np_sum(_)
np_sum(arr) == IF arr = <<>> THEN Zero ELSE NumAdd(Head(arr), np_sum(Tail(arr)))

\* np.mean: the mean of an empty array is NaN (with a RuntimeWarning)
np_mean(arr) == NumDiv(np_sum(arr), Num(Len(arr)))

\* np.max / np.min of a non-empty array; NaN propagates
np_max(arr) ==
    IF HasNaN(arr) THEN NaN
    ELSE CHOOSE m \in {arr[i] : i \in 1..Len(arr)} :
             \A i \in 1..Len(arr) : NumLeq(arr[i], m)

np_min(arr) ==
    IF HasNaN(arr) THEN NaN
    ELSE CHOOSE m \in {arr[i] : i \in 1..Len(arr)} :
             \A i \in 1..Len(arr) : NumLeq(m, arr[i])

\* the k-th smallest element of a NaN-free array
KthSmallest(arr, k) ==
    CHOOSE v \in {arr[i] : i \in 1..Len(arr)} :
        /\ Cardinality({i \in 1..Len(arr) : ~NumLeq(v, arr[i])}) < k
        /\ Cardinality({i \in 1..Len(arr) : NumLeq(arr[i], v)}) >= k

\* np.median of a non-empty array
np_median(arr) ==
    IF HasNaN(arr) THEN NaN
    ELSE LET n == Len(arr)
         IN  IF n % 2 = 1 THEN KthSmallest(arr, (n + 1) \div 2)
             ELSE NumDiv(NumAdd(KthSmallest(arr, n \div 2),
                                KthSmallest(arr, n \div 2 + 1)), Num(2))

(***************************************************************************)
(* haversine (utils.py).  Latitudes are taken from {0, 60} and longitudes  *)
(* from {0, 90} degrees, where the trigonometric terms of the formula are  *)
(* rational; 2 * asin(sqrt(a)) is tabulated in microradians at the values  *)
(* of a these coordinates produce.                                         *)
(***************************************************************************)
Lats == {0, 60}
Lons == {0, 90}
Locations == Lats \X Lons

\* Radius of earth in kilometers
EarthRadiusKm == 6371

\* sin(d / 2) ** 2 for a difference d of two coordinates, in degrees
SinHalfSquared(d) ==
    CASE Abs(d) = 0  -> Zero
      [] Abs(d) = 60 -> Rat(1, 4)
      [] Abs(d) = 90 -> Rat(1, 2)

\* cos(lat) for a latitude in degrees
Cos(lat) ==
    CASE lat = 0  -> One
      [] lat = 60 -> Rat(1, 2)

NumMul(x, y) == Rat(x[1] * y[1], x[2] * y[2])

\* 2 * asin(sqrt(a)), in microradians
TwoAsinSqrt(a) ==
    CASE a = Zero      -> 0
      [] a = Rat(1, 8) -> 722734
      [] a = Rat(1, 4) -> 1047198
      [] a = Rat(3, 8) -> 1318116
      [] a = Rat(1, 2) -> 1570796
      [] a = Rat(5, 8) -> 1823477
      [] a = Rat(3, 4) -> 2094395

\* great-circle distance in km (rounded down to a whole km)
haversine(lat1, lon1, lat2, lon2) ==
    LET d_lon == lon2 - lon1
        d_lat == lat2 - lat1
        a == NumAdd(SinHalfSquared(d_lat),
                    NumMul(NumMul(Cos(lat1), Cos(lat2)), SinHalfSquared(d_lon)))
        c == TwoAsinSqrt(a)
    IN  Num((EarthRadiusKm * (c \div 1000)) \div 1000)

(***************************************************************************)
(* The external services.  One reply of a routing service / street graph   *)
(* to one request: the HTTP status, the "code" (OSM) or "status" (Google)  *)
(* of the body, and the routes found, each with a distance in metres and a *)
(* duration in seconds.  For osmnx the route is the shortest path of the   *)
(* downloaded graph; no route means networkx finds no path.                *)
(***************************************************************************)
Replies ==
    { [status |-> 200, code |-> "Ok", routes |-> <<[distance |-> 30006000, duration |-> 3600]>>],
      [status |-> 200, code |-> "Ok", routes |-> <<[distance |-> 10002000, duration |-> 1800]>>],
      [status |-> 500, code |-> "NoRoute", routes |-> <<>>] }

\* the reply standing for a request that is not sent
AnyReply == CHOOSE r \in Replies : TRUE

Modes == {"haversine", "osm", "osmnx", "gmaps", "bing", "invalid_mode"}
ValidModes == {"haversine", "osm", "osmnx", "gmaps"}

\* outcome of one call of a distance function: the exception raised (or
\* "none"), what is returned, and the providers that were called, in order
Returned(distance, duration, calls) ==
    [raised |-> "none", returns |-> "pair", distance |-> distance,
     duration |-> duration, calls |-> calls]

ReturnedNone(calls) ==
    [raised |-> "none", returns |-> "None", distance |-> NaN,
     duration |-> NaN, calls |-> calls]

Raised(exc, calls) ==
    [raised |-> exc, returns |-> "-", distance |-> NaN,
     duration |-> NaN, calls |-> calls]

\* utils.__request_data_from_osm and utils.drive_distance_osm
drive_distance_osm(origin, destination, reply) ==
    IF reply.code # "Ok" THEN Raised("RuntimeError", <<"osm">>)
    ELSE IF reply.routes = <<>> THEN Raised("IndexError", <<"osm">>)
    ELSE Returned(NumDiv(Num(reply.routes[1].distance), Num(1000)),
                  NumDiv(Num(reply.routes[1].duration), Num(60)), <<"osm">>)

\* utils.__request_data_from_gmaps and utils.drive_distance_gmaps
drive_distance_gmaps(origin, destination, reply) ==
    IF reply.status # 200 THEN Raised("RuntimeError", <<"gmaps">>)
    ELSE IF reply.code # "Ok" THEN Raised("RuntimeError", <<"gmaps">>)
    ELSE IF reply.routes = <<>> THEN Raised("IndexError", <<"gmaps">>)
    ELSE Returned(NumDiv(Num(reply.routes[1].distance), Num(1000)),
                  NumDiv(Num(reply.routes[1].duration), Num(60)), <<"gmaps">>)

\* utils.drive_distance_osmnx: returns the length only, in km
drive_distance_osmnx(origin, destination, reply) ==
    IF reply.routes = <<>> THEN Raised("NetworkXNoPath", <<"osmnx">>)
    ELSE Returned(NumDiv(Num(reply.routes[1].distance), Num(1000)), NaN, <<"osmnx">>)

\* variant of pair_with_zero_duration that hands back the bare value
pair_unwrapped(r) == r

\* (x, 0) for a provider that returns a bare distance
pair_with_zero_duration(r) ==
    IF r.raised # "none" THEN r ELSE Returned(r.distance, Zero, r.calls)

\* variant of get_distance whose default case computes the haversine
\* distance
get_distance_default_haversine(location1, location2, mode, reply) ==
    CASE mode = "osm" -> drive_distance_osm(location1, location2, reply)
      [] mode = "osmnx" ->
            pair_with_zero_duration(drive_distance_osmnx(location1, location2, reply))
      [] mode = "gmaps" -> drive_distance_gmaps(location1, location2, reply)
      [] OTHER ->
            Returned(haversine(location1[1], location1[2], location2[1], location2[2]),
                     Zero, <<"haversine">>)

\* utils.get_distance
get_distance(location1, location2, mode, reply) ==
    CASE mode = "haversine" ->
            Returned(haversine(location1[1], location1[2], location2[1], location2[2]),
                     Zero, <<"haversine">>)
      [] mode = "osm" -> drive_distance_osm(location1, location2, reply)
      [] mode = "osmnx" ->
            pair_with_zero_duration(drive_distance_osmnx(location1, location2, reply))
      [] mode = "gmaps" -> drive_distance_gmaps(location1, location2, reply)
      [] OTHER -> Raised("ValueError", <<>>)

\* utilities.Haversine
Haversine(lat1, lon1, lat2, lon2) ==
    LET dlon == lon2 - lon1
        dlat == lat2 - lat1
        a == NumAdd(SinHalfSquared(dlat),
                    NumMul(NumMul(Cos(lat1), Cos(lat2)), SinHalfSquared(dlon)))
        c == TwoAsinSqrt(a)
    IN  Num((EarthRadiusKm * (c \div 1000)) \div 1000)

\* utilities.drive_distance_osm: a code other than "Ok" only warns
utilities_drive_distance_osm(origin, destination, reply) ==
    IF reply.routes = <<>> THEN Raised("IndexError", <<"osm">>)
    ELSE Returned(NumDiv(Num(reply.routes[1].distance), Num(1000)),
                  NumDiv(Num(reply.routes[1].duration), Num(60)), <<"osm">>)

\* utilities.drive_distance_bing: a stub whose body is "pass"
drive_distance_bing(origin, destination) == ReturnedNone(<<"bing">>)

\* utilities.get_distance; drive_distance_gmaps is called without its
\* required api_key argument, which is a TypeError before the call is made
utilities_get_distance(location1, location2, mode, reply) ==
    CASE mode = "haversine" ->
            Returned(Haversine(location1[1], location1[2], location2[1], location2[2]),
                     Zero, <<"haversine">>)
      [] mode = "osm" -> utilities_drive_distance_osm(location1, location2, reply)
      [] mode = "osmnx" ->
            pair_with_zero_duration(drive_distance_osmnx(location1, location2, reply))
      [] mode = "gmaps" -> Raised("TypeError", <<>>)
      [] mode = "bing" -> drive_distance_bing(location1, location2)
      [] OTHER -> Raised("ValueError", <<>>)

(***************************************************************************)
(* The Route (route.py).  The route "R1" owns the stops a and b; z is a    *)
(* Stop object that exists but is not in the route's stops mapping.        *)
(***************************************************************************)
RouteName == "R1"
StopNames == {"a", "b"}
ForeignStops == {"z"}
AllStops == StopNames \cup ForeignStops

\* stop.location, (lat, lon) in degrees
StopLocation(s) ==
    CASE s = "a" -> <<0, 0>>
      [] s = "b" -> <<0, 90>>
      [] s = "z" -> <<60, 0>>

Kinds == {"planned", "actual"}

VARIABLES
    attrs,    \* attrs[k][n]: value of the Route attribute n of sequence kind k
              \* (planned_sequence is attrs["planned"].sequence, ...)
    has,      \* has[k]: the attributes of kind k that exist on the object
    last,     \* the last method call on the Route and its outcome
    nblocks,  \* number of per-kind blocks the caller has asked for so far
    completed,  \* completed[k]: the evaluate_* stages whose block for kind k
                \* has run to its end at least once (history)
    gd,       \* the last call of a get_distance function and its outcome
    stops,    \* stops[s]: the Stop of the route's stops mapping named s
    route_status,  \* the attributes evaluate_route_status sets, and its outcome
    osm,      \* the last call that reached drive_distance_osm: the requests
              \* it sent and its outcome
    pkg,       \* a Package object, and the last call made on it
    pkgs,       \* the Package objects handed to the Stop constructor
    the_stop,       \* a Stop object over pkgs, and the last call of its constructor
    hv,       \* the last call of haversine on doubles and its outcome
    an,       \* an analysis object over a list of routes, and the last call on it
    dm,       \* a DistanceMatrix object and the last call on it
    adh,       \* the attributes evaluate_sequence_adherence sets on the Route
    route_obj,       \* the vehicle and the bounding boxes of the Route
    fetch       \* the CSV file and the last run of the fetch_osm_dd script

\* the objects outside the Route pipeline
objectVars == <<osm, pkg, pkgs, the_stop, hv, an, dm, adh, route_obj, fetch>>

vars == <<attrs, has, last, nblocks, completed, gd, stops, route_status, objectVars>>

NoAttrs ==
    [sequence |-> <<>>, number_of_stops |-> 0, sequence_names |-> <<>>,
     euclidean_distances |-> <<>>, total_euclidean_distance |-> NaN,
     avg_euclidean_distance |-> NaN, max_euclidean_distance |-> NaN,
     min_euclidean_distance |-> NaN,
     driving_distances |-> <<>>, total_driving_distance |-> NaN,
     avg_driving_distance |-> NaN, max_driving_distance |-> NaN,
     min_driving_distance |-> NaN,
     circuity_factors |-> <<>>, mean_circuity_factor |-> NaN,
     max_circuity_factor |-> NaN, min_circuity_factor |-> NaN,
     total_circuity_factor |-> NaN, avg_circuity_factor |-> NaN,
     med_circuity_factor |-> NaN]

CircuityAttrs ==
    {"circuity_factors", "mean_circuity_factor", "max_circuity_factor",
     "min_circuity_factor", "total_circuity_factor", "avg_circuity_factor",
     "med_circuity_factor"}

NoCall ==
    [op |-> "none", planned |-> FALSE, actual |-> FALSE, raised |-> "none",
     at |-> "-", calls |-> [k \in Kinds |-> 0], warned |-> {},
     matrices |-> {}]

NoDistanceCall ==
    [impl |-> "none", location1 |-> <<0, 0>>, location2 |-> <<0, 0>>,
     mode |-> "haversine", reply |-> AnyReply,
     result |-> Raised("none", <<>>)]

\* route.__init__: no sequence and no metric attribute exists yet
RouteInit ==
    /\ attrs = [k \in Kinds |-> NoAttrs]
    /\ has = [k \in Kinds |-> {}]
    /\ last = NoCall
    /\ nblocks = 0
    /\ completed = [k \in Kinds |-> {}]

(***************************************************************************)
(* A method body is run on a record o holding the object (attrs, has) and  *)
(* the progress of the call: the exception raised so far and the sequence  *)
(* kind it was raised for, the get_distance calls made per kind, and the   *)
(* kinds an "empty sequence" warning was emitted for.                      *)
(***************************************************************************)
Enter == [attrs |-> attrs, has |-> has, completed |-> completed,
          raised |-> "none", at |-> "-",
          calls |-> [k \in Kinds |-> 0], warned |-> {}]

SetAttr(o, k, name, v) ==
    [o EXCEPT !.attrs[k][name] = v, !.has[k] = @ \cup {name}]

Raise(o, exc, k) == [o EXCEPT !.raised = exc, !.at = k]

Warn(o, k) == [o EXCEPT !.warned = @ \cup {k}]

Called(o, k, n) == [o EXCEPT !.calls[k] = @ + n]

Complete(o, k, stage) == [o EXCEPT !.completed[k] = @ \cup {stage}]

\* number of per-kind blocks a call with these flags asks for (a call with
\* neither flag still counts as one)
Blocks(planned, actual) ==
    IF planned /\ actual THEN 2 ELSE 1

\* the call returns or raises: the object keeps what was assigned before
Leave(o, op, planned, actual, matrices, cost) ==
    /\ nblocks + cost <= MaxBlocks
    /\ attrs' = o.attrs
    /\ has' = o.has
    /\ last' = [op |-> op, planned |-> planned, actual |-> actual,
                raised |-> o.raised, at |-> o.at, calls |-> o.calls,
                warned |-> o.warned, matrices |-> matrices]
    /\ nblocks' = nblocks + cost
    /\ completed' = o.completed
    /\ UNCHANGED <<gd, stops, route_status, objectVars>>

(***************************************************************************)
(* set_planned_sequence / set_actual_sequence.  An element of the argument *)
(* is a Stop object or a string; both carry the name of a stop.            *)
(***************************************************************************)
Elements == {"stop", "str"} \X AllStops

\* the orders in which a caller lists the stops it passes
StopOrders == {<<"a", "b", "z">>, <<"z", "b", "a">>}

\* visiting orders of at most MaxLen stops
Visits == {SubSeq(order, 1, n) : order \in StopOrders, n \in 0..MaxLen}

\* the lists a caller passes: every element a Stop, every element a name,
\* or Stops and names mixed
SequenceInputs ==
    {[i \in 1..Len(v) |-> <<t[i], v[i]>>] :
        <<v, t>> \in {<<v, t>> \in Visits \X [1..MaxLen -> {"stop", "str"}] :
                        \A i \in 1..MaxLen : i > Len(v) => t[i] = "stop"}}

NamesOf(sequence) == [i \in 1..Len(sequence) |-> sequence[i][2]]

\* variant of set_sequence that stores the list before it checks it
set_sequence_unchecked(o, k, sequence) ==
    IF \A i \in 1..Len(sequence) : sequence[i][1] = "stop"
    THEN LET o1 == SetAttr(o, k, "sequence", NamesOf(sequence))
             o2 == SetAttr(o1, k, "number_of_stops", Len(sequence))
         IN  SetAttr(o2, k, "sequence_names", NamesOf(sequence))
    ELSE IF \A i \in 1..Len(sequence) : sequence[i][1] = "str"
    THEN IF \E i \in 1..Len(sequence) : sequence[i][2] \notin StopNames
         THEN Raise(SetAttr(o, k, "sequence", NamesOf(sequence)), "KeyError", k)
         ELSE LET o1 == SetAttr(o, k, "sequence", NamesOf(sequence))
                  o2 == SetAttr(o1, k, "number_of_stops", Len(sequence))
              IN  SetAttr(o2, k, "sequence_names", NamesOf(sequence))
    ELSE Raise(o, "ValueError", k)

\* body shared by set_planned_sequence and set_actual_sequence
set_sequence(o, k, sequence) ==
    IF \A i \in 1..Len(sequence) : sequence[i][1] = "stop"
    THEN \* a list of stops is stored as it is
         LET o1 == SetAttr(o, k, "sequence", NamesOf(sequence))
             o2 == SetAttr(o1, k, "number_of_stops", Len(sequence))
         IN  SetAttr(o2, k, "sequence_names", NamesOf(sequence))
    ELSE IF \A i \in 1..Len(sequence) : sequence[i][1] = "str"
    THEN \* [self.stops[x] for x in sequence]
         IF \E i \in 1..Len(sequence) : sequence[i][2] \notin StopNames
         THEN Raise(o, "KeyError", k)
         ELSE LET o1 == SetAttr(o, k, "sequence", NamesOf(sequence))
                  o2 == SetAttr(o1, k, "number_of_stops", Len(sequence))
              IN  SetAttr(o2, k, "sequence_names", NamesOf(sequence))
    ELSE Raise(o, "ValueError", k)

set_planned_sequence ==
    /\ nblocks < MaxBlocks
    /\ \E sequence \in SequenceInputs :
          \E o \in {set_sequence(Enter, "planned", sequence)} :
              Leave(o, "set_planned_sequence", TRUE, FALSE, {}, 1)

set_actual_sequence ==
    /\ nblocks < MaxBlocks
    /\ \E sequence \in SequenceInputs :
          \E o \in {set_sequence(Enter, "actual", sequence)} :
              Leave(o, "set_actual_sequence", FALSE, TRUE, {}, 1)

(***************************************************************************)
(* Euclidean distances.                                                    *)
(***************************************************************************)
\* replies of the external service to the requests of a Route
RouteReplies == {r \in Replies : r.code # "Ok" \/ r.routes[1].distance = 30006000}

\* variant of calculate_euclidean_distances that does not close the cycle
calculate_euclidean_distances_open(o, k, sequence) ==
    IF Len(sequence) = 0
    THEN SetAttr(Warn(o, k), k, "euclidean_distances", <<>>)
    ELSE LET n == Len(sequence)
             distances ==
                 [x \in 1..(n - 1) |->
                     get_distance(StopLocation(sequence[x]),
                                  StopLocation(sequence[x + 1]),
                                  "haversine", AnyReply).distance]
         IN  SetAttr(Called(o, k, n - 1), k, "euclidean_distances", distances)

\* route.__calculate_euclidean_distances: one haversine distance per
\* consecutive pair, then the one from the last stop back to the first
calculate_euclidean_distances(o, k, sequence) ==
    IF Len(sequence) = 0
    THEN SetAttr(Warn(o, k), k, "euclidean_distances", <<>>)
    ELSE LET n == Len(sequence)
             distances ==
                 [x \in 1..(n - 1) |->
                     get_distance(StopLocation(sequence[x]),
                                  StopLocation(sequence[x + 1]),
                                  "haversine", AnyReply).distance]
             final_distance ==
                 get_distance(StopLocation(sequence[n]),
                              StopLocation(sequence[1]),
                              "haversine", AnyReply)
         IN  SetAttr(Called(o, k, n), k, "euclidean_distances",
                     Append(distances, final_distance.distance))

\* the block of evaluate_euclidean_distances for one sequence kind; np.max
\* of an empty array raises ValueError
euclidean_block(o, k) ==
    IF "sequence" \notin o.has[k] THEN Raise(o, "AttributeError", k)
    ELSE ByValue(LAMBDA o1 :
             LET arr == o1.attrs[k].euclidean_distances
                 o2 == SetAttr(o1, k, "total_euclidean_distance", np_sum(arr))
                 o3 == SetAttr(o2, k, "avg_euclidean_distance", np_mean(arr))
             IN  IF arr = <<>> THEN Raise(o3, "ValueError", k)
                 ELSE LET o4 == SetAttr(o3, k, "max_euclidean_distance", np_max(arr))
                          o5 == SetAttr(o4, k, "min_euclidean_distance", np_min(arr))
                      IN  Complete(o5, k, "euclidean"),
             calculate_euclidean_distances(o, k, o.attrs[k].sequence))

\* route.evaluate_euclidean_distances
euclidean_distances(o, planned, actual) ==
    ByValue(LAMBDA o1 :
                IF o1.raised = "none" /\ actual
                THEN euclidean_block(o1, "actual") ELSE o1,
            IF planned THEN euclidean_block(o, "planned") ELSE o)

evaluate_euclidean_distances ==
    /\ nblocks < MaxBlocks
    /\ \E planned, actual \in BOOLEAN :
          /\ nblocks + Blocks(planned, actual) <= MaxBlocks
          /\ \E o \in {euclidean_distances(Enter, planned, actual)} :
              Leave(o, "evaluate_euclidean_distances", planned, actual, {},
                    Blocks(planned, actual))

(***************************************************************************)
(* Driving distances.                                                      *)
(***************************************************************************)
DictGet(d, key, default) == IF key \in DOMAIN d THEN d[key] ELSE default

EmptyDict == [x \in {} |-> 0]

DistanceKey == "distance_to_next(km)"

\* a matrix entry holding a float, and one holding the text of a CSV field
\* (its decimal digits)
Entry(km) == [x \in {DistanceKey} |-> <<"float", Num(km)>>]
TextEntry(digits) == [x \in {DistanceKey} |-> <<"str", digits>>]

\* the integer written with the given decimal digits
RECURSIVE ParseDigits(_)
ParseDigits(digits) ==
    IF digits = <<>> THEN 0
    ELSE 10 * ParseDigits(SubSeq(digits, 1, Len(digits) - 1)) + digits[Len(digits)]

\* float(x) on a float or on the text of a number
float(x) == IF x[1] = "str" THEN Num(ParseDigits(x[2])) ELSE x[2]

\* distance matrices a caller may supply: route name -> stop name -> entry
Matrices ==
    { [r \in {RouteName} |->
          [s \in AllStops |->
              Entry(CASE s = "a" -> 20004 [] s = "b" -> 20004 [] s = "z" -> 6670)]],
      [r \in {RouteName} |-> [s \in {"a"} |-> TextEntry(<<2, 0, 0, 0, 4>>)]],
      [r \in {"R2"} |-> [s \in {"a"} |-> Entry(10002)]] }

\* an optional distance matrix argument; None is not given
NoMatrix == [given |-> FALSE, dict |-> EmptyDict]
MatrixArgs == {NoMatrix} \cup {[given |-> TRUE, dict |-> m] : m \in Matrices}

\* variant of get_distance_from_dist_matrix whose default is 0
get_distance_from_dist_matrix_zero_default(distance_matrix, s) ==
    float(DictGet(DictGet(DictGet(distance_matrix, RouteName, EmptyDict), s,
                          EmptyDict),
                  DistanceKey, <<"float", Zero>>))

\* route.__get_distance_from_dist_matrix
get_distance_from_dist_matrix(distance_matrix, s) ==
    float(DictGet(DictGet(DictGet(distance_matrix, RouteName, EmptyDict), s,
                          EmptyDict),
                  DistanceKey, <<"float", NaN>>))

\* index of the first get_distance call that raised, 0 if none did
FirstRaised(results) ==
    IF \E i \in 1..Len(results) : results[i].raised # "none"
    THEN CHOOSE i \in 1..Len(results) :
             /\ results[i].raised # "none"
             /\ \A j \in 1..(i - 1) : results[j].raised = "none"
    ELSE 0

\* the distances of a non-empty sequence, computed sequentially or by the
\* pool; replies[i] is what the external service answers for transition i
dispatch_transitions(o, k, sequence, mode, multiprocessing, replies) ==
    ByValue2(LAMBDA osm_distances, final :
        LET n == Len(sequence)
            f == FirstRaised(osm_distances)
        IN  IF ~multiprocessing
            THEN \* sequentially; the numpy array built from the results has
                 \* no append method
                 IF f # 0 THEN Raise(Called(o, k, f), osm_distances[f].raised, k)
                 ELSE Raise(Called(o, k, n - 1), "AttributeError", k)
            ELSE \* the pool runs every task before the error is re-raised
                 IF f # 0 THEN Raise(Called(o, k, n - 1), osm_distances[f].raised, k)
                 ELSE IF final.raised # "none"
                 THEN Raise(Called(o, k, n), final.raised, k)
                 ELSE SetAttr(Called(o, k, n), k, "driving_distances",
                              [i \in 1..n |-> Append(osm_distances, final)[i].distance]),
        [i \in 1..(Len(sequence) - 1) |->
            get_distance(StopLocation(sequence[i]),
                         StopLocation(sequence[i + 1]), mode, replies[i])],
        get_distance(StopLocation(sequence[Len(sequence)]),
                     StopLocation(sequence[1]), mode, replies[Len(sequence)]))

\* variant of calculate_driving_distances without the check for an empty
\* sequence: the append of the sequential branch and the sequence[-1] of
\* the pool branch fail instead
calculate_driving_distances_unchecked(o, k, sequence, mode, multiprocessing, replies) ==
    IF Len(sequence) = 0
    THEN Raise(o, IF multiprocessing THEN "IndexError" ELSE "AttributeError", k)
    ELSE dispatch_transitions(o, k, sequence, mode, multiprocessing, replies)

\* route.__calculate_driving_distances on the locations of a sequence
calculate_driving_distances(o, k, sequence, mode, multiprocessing, replies) ==
    IF Len(sequence) = 0 THEN Raise(o, "ValueError", k)
    ELSE dispatch_transitions(o, k, sequence, mode, multiprocessing, replies)

\* the block of evaluate_driving_distances for one sequence kind
driving_block(o, k, flag, mode, multiprocessing, distance_matrix, replies) ==
    IF distance_matrix.given
    THEN IF "sequence" \notin o.has[k] THEN Raise(o, "AttributeError", k)
         ELSE ByValue(LAMBDA arr :
                  LET o1 == SetAttr(o, k, "driving_distances", arr)
                      o2 == SetAttr(o1, k, "total_driving_distance", np_sum(arr))
                      o3 == SetAttr(o2, k, "avg_driving_distance", np_mean(arr))
                  IN  IF arr = <<>> THEN Raise(o3, "ValueError", k)
                      ELSE LET o4 == SetAttr(o3, k, "max_driving_distance", np_max(arr))
                               o5 == SetAttr(o4, k, "min_driving_distance", np_min(arr))
                           IN  Complete(o5, k, "driving"),
                  [i \in 1..Len(o.attrs[k].sequence) |->
                      get_distance_from_dist_matrix(distance_matrix.dict,
                                                    o.attrs[k].sequence[i])])
    ELSE IF flag
    THEN IF "sequence" \notin o.has[k] THEN Raise(o, "AttributeError", k)
         ELSE ByValue(LAMBDA o1 :
                  IF o1.raised # "none" THEN o1
                  ELSE Complete(SetAttr(o1, k, "total_driving_distance",
                                        np_sum(o1.attrs[k].driving_distances)),
                                k, "driving"),
                  calculate_driving_distances(o, k, o.attrs[k].sequence,
                                              mode, multiprocessing, replies))
    ELSE o

\* route.evaluate_driving_distances
driving_distances(o, planned, actual, mode, multiprocessing, planned_distance_matrix, actual_distance_matrix, replies) ==
    ByValue(LAMBDA o1 :
                IF o1.raised # "none" THEN o1
                ELSE driving_block(o1, "actual", actual, mode, multiprocessing,
                                   actual_distance_matrix, replies),
            driving_block(o, "planned", planned, mode, multiprocessing,
                          planned_distance_matrix, replies))

\* modes handed to evaluate_driving_distances: the pure one, one that asks
\* an external service, and one the dispatcher does not know
RouteModes == {"haversine", "osm", "invalid_mode"}

\* length of the longest sequence that goes through the dispatcher
LongestDispatched(planned, actual, planned_distance_matrix, actual_distance_matrix) ==
    LET lp == IF planned /\ ~planned_distance_matrix.given
              THEN Len(attrs["planned"].sequence) ELSE 0
        la == IF actual /\ ~actual_distance_matrix.given
              THEN Len(attrs["actual"].sequence) ELSE 0
    IN  IF lp > la THEN lp ELSE la

\* Arguments the code does not read are held at their default: the flag of
\* a kind whose matrix is given, mode and multiprocessing when no kind goes
\* through the dispatcher, the replies of requests that are never sent.
evaluate_driving_distances ==
    /\ nblocks < MaxBlocks
    /\ \E planned_distance_matrix, actual_distance_matrix \in MatrixArgs :
       \E planned \in (IF planned_distance_matrix.given THEN {TRUE} ELSE BOOLEAN),
          actual \in (IF actual_distance_matrix.given THEN {TRUE} ELSE BOOLEAN) :
       LET dispatched == \/ (planned /\ ~planned_distance_matrix.given)
                         \/ (actual /\ ~actual_distance_matrix.given)
       IN  /\ nblocks + Blocks(planned, actual) <= MaxBlocks
           /\ \E mode \in (IF dispatched THEN RouteModes ELSE {"osm"}),
              multiprocessing \in (IF dispatched THEN BOOLEAN ELSE {FALSE}) :
               \E replies \in (IF dispatched /\ mode = "osm"
                               THEN {r \in [1..MaxLen -> RouteReplies] :
                                        \A i \in 1..MaxLen :
                                            i > LongestDispatched(planned, actual,
                                                    planned_distance_matrix,
                                                    actual_distance_matrix)
                                            => r[i] = AnyReply}
                               ELSE {[i \in 1..MaxLen |-> AnyReply]}) :
               \E o \in {driving_distances(Enter, planned, actual, mode,
                                            multiprocessing, planned_distance_matrix,
                                            actual_distance_matrix, replies)} :
                  Leave(o, "evaluate_driving_distances", planned, actual,
                        {k \in Kinds :
                            IF k = "planned" THEN planned_distance_matrix.given
                            ELSE actual_distance_matrix.given},
                        Blocks(planned, actual))

\* evaluate_driving_distances called with a distance matrix for at least
\* one kind and with every value of the arguments the matrix path is to
\* ignore: the flags, the mode and multiprocessing; it looks at both kinds
evaluate_driving_distances_matrix ==
    /\ nblocks + 2 <= MaxBlocks
    /\ \E planned_distance_matrix, actual_distance_matrix \in MatrixArgs :
          /\ planned_distance_matrix.given \/ actual_distance_matrix.given
          /\ \E planned, actual, multiprocessing \in BOOLEAN, mode \in RouteModes :
              \E o \in {driving_distances(Enter, planned, actual, mode,
                                           multiprocessing, planned_distance_matrix,
                                           actual_distance_matrix,
                                           [i \in 1..MaxLen |-> AnyReply])} :
                 Leave(o, "evaluate_driving_distances", planned, actual,
                       {k \in Kinds :
                           IF k = "planned" THEN planned_distance_matrix.given
                           ELSE actual_distance_matrix.given},
                       2)

MatrixNext ==
    \/ set_planned_sequence
    \/ set_actual_sequence
    \/ evaluate_driving_distances_matrix

(***************************************************************************)
(* Circuity factors.                                                       *)
(***************************************************************************)
\* zip(xs, ys): as long as the shorter argument
Zip(xs, ys) ==
    [i \in 1..(IF Len(xs) < Len(ys) THEN Len(xs) ELSE Len(ys)) |-> <<xs[i], ys[i]>>]

\* variant of circuity_ratio whose degenerate value is 0
circuity_ratio_zero(x, y) == IF ~IsZero(y) THEN NumDiv(x, y) ELSE Zero

\* x / y if y != 0 else 1
circuity_ratio(x, y) == IF ~IsZero(y) THEN NumDiv(x, y) ELSE One

\* variant of aggregate_circuity that averages nothing and divides the
\* other way round
aggregate_circuity_inverted(total_driving_distance, total_euclidean_distance) ==
    NumDiv(total_euclidean_distance, total_driving_distance)

\* total driving distance / total euclidean distance
aggregate_circuity(total_driving_distance, total_euclidean_distance) ==
    NumDiv(total_driving_distance, total_euclidean_distance)

\* the block of evaluate_circuity_factor for one sequence kind
circuity_block(o, k) ==
    IF "driving_distances" \notin o.has[k] THEN Raise(o, "AttributeError", k)
    ELSE IF "euclidean_distances" \notin o.has[k] THEN Raise(o, "AttributeError", k)
    ELSE ByValue(LAMBDA arr :
             LET o1 == SetAttr(o, k, "circuity_factors", arr)
                 o2 == SetAttr(o1, k, "mean_circuity_factor", np_mean(arr))
             IN  IF arr = <<>> THEN Raise(o2, "ValueError", k)
                 ELSE LET o3 == SetAttr(o2, k, "max_circuity_factor", np_max(arr))
                          o4 == SetAttr(o3, k, "min_circuity_factor", np_min(arr))
                      IN  \* the totals are attributes the earlier stages set
                          IF "total_driving_distance" \notin o.has[k]
                             \/ "total_euclidean_distance" \notin o.has[k]
                          THEN Raise(o4, "AttributeError", k)
                          ELSE LET o5 == SetAttr(o4, k, "total_circuity_factor",
                                            aggregate_circuity(
                                                o.attrs[k].total_driving_distance,
                                                o.attrs[k].total_euclidean_distance))
                                   o6 == SetAttr(o5, k, "avg_circuity_factor", np_mean(arr))
                                   o7 == SetAttr(o6, k, "med_circuity_factor", np_median(arr))
                               IN  Complete(o7, k, "circuity"),
             [i \in 1..Len(Zip(o.attrs[k].driving_distances,
                               o.attrs[k].euclidean_distances)) |->
                 circuity_ratio(o.attrs[k].driving_distances[i],
                                o.attrs[k].euclidean_distances[i])])

\* route.evaluate_circuity_factor
circuity_factor(o, planned, actual) ==
    ByValue(LAMBDA o1 :
                IF o1.raised = "none" /\ actual
                THEN circuity_block(o1, "actual") ELSE o1,
            IF planned THEN circuity_block(o, "planned") ELSE o)

evaluate_circuity_factor ==
    /\ nblocks < MaxBlocks
    /\ \E planned, actual \in BOOLEAN :
          /\ nblocks + Blocks(planned, actual) <= MaxBlocks
          /\ \E o \in {circuity_factor(Enter, planned, actual)} :
              Leave(o, "evaluate_circuity_factor", planned, actual, {},
                    Blocks(planned, actual))

RouteNext ==
    \/ set_planned_sequence
    \/ set_actual_sequence
    \/ evaluate_euclidean_distances
    \/ evaluate_driving_distances
    \/ evaluate_circuity_factor

(***************************************************************************)
(* Calls of the two dispatchers on their own.                              *)
(***************************************************************************)
utils_get_distance ==
    \E location1, location2 \in Locations, mode \in Modes, reply \in Replies :
        /\ gd' = [impl |-> "utils", location1 |-> location1,
                  location2 |-> location2, mode |-> mode, reply |-> reply,
                  result |-> get_distance(location1, location2, mode, reply)]
        /\ UNCHANGED <<attrs, has, last, nblocks, completed, stops, route_status, objectVars>>

utilities_get_distance_call ==
    \E location1, location2 \in Locations, mode \in Modes, reply \in Replies :
        /\ gd' = [impl |-> "utilities", location1 |-> location1,
                  location2 |-> location2, mode |-> mode, reply |-> reply,
                  result |-> utilities_get_distance(location1, location2, mode, reply)]
        /\ UNCHANGED <<attrs, has, last, nblocks, completed, stops, route_status, objectVars>>

DistanceNext == utils_get_distance \/ utilities_get_distance_call

(***************************************************************************)
(* Stops, their packages, and evaluate_route_status.                       *)
(***************************************************************************)
LocationTypes == {"depot", "pickup", "delivery"}
PackageStatuses == {"to-be-delivered", "rejected", "attempted", "delivered"}

\* list.count
Count(list, x) == Cardinality({i \in 1..Len(list) : list[i] = x})

\* stop.__init__ on valid arguments: packages holds the status of each
\* package object; status_list is the copy of the statuses taken here
Stop(location_type, packages) ==
    [location_type |-> location_type, packages |-> packages,
     status_list |-> packages]

\* the properties of a stop that evaluate_route_status reads
number_of_packages(stop) == Len(stop.packages)
number_of_delivered_packages(stop) == Count(stop.status_list, "delivered")
number_of_rejected_packages(stop) == Count(stop.status_list, "rejected")
number_of_failed_attempted_packages(stop) == Count(stop.status_list, "attempted")

Stops ==
    {Stop(t, p) : t \in LocationTypes,
                  p \in UNION {[1..n -> PackageStatuses] : n \in 0..MaxPackages}}

\* the stops of the routes whose sequences and distances are explored
DefaultStops == [s \in StopNames |-> Stop("delivery", <<>>)]

NoStatus ==
    [evaluated |-> FALSE, raised |-> "none", warnings |-> {},
     number_of_packages |-> 0, number_of_delivery_stops |-> 0,
     number_of_pickup_stops |-> 0, number_of_delivered_packages |-> 0,
     number_of_rejected_packages |-> 0,
     number_of_failed_attempted_packages |-> 0,
     avg_packages_per_stop |-> NaN, rejected_packages_percentage |-> NaN,
     delivered_packages_percentage |-> NaN,
     failed_attempted_packages_percentage |-> NaN]

\* sum of f[s] over the stops named in names
RECURSIVE SumOver(_, _)
SumOver(names, f) ==
    IF names = {} THEN 0
    ELSE LET s == CHOOSE x \in names : TRUE
         IN  f[s] + SumOver(names \ {s}, f)

\* variant of guarded_division without the except clause
unguarded_division(x, y) ==
    IF y = 0 THEN [raised |-> "ZeroDivisionError", value |-> NaN, warned |-> FALSE]
    ELSE [raised |-> "none", value |-> Rat(x, y), warned |-> FALSE]

\* try: x / y on Python ints; except ZeroDivisionError: warn and use 0
guarded_division(x, y) ==
    IF y = 0 THEN [raised |-> "none", value |-> Zero, warned |-> TRUE]
    ELSE [raised |-> "none", value |-> Rat(x, y), warned |-> FALSE]

\* route.evaluate_route_status
route_status_of(st) ==
    LET delivery == {s \in DOMAIN st : st[s].location_type = "delivery"}
        pickup == {s \in DOMAIN st : st[s].location_type # "delivery"}
        n_packages == SumOver(delivery, [s \in delivery |-> number_of_packages(st[s])])
        n_delivered == SumOver(delivery, [s \in delivery |-> number_of_delivered_packages(st[s])])
        n_rejected == SumOver(delivery, [s \in delivery |-> number_of_rejected_packages(st[s])])
        n_attempted ==
            SumOver(delivery,
                    [s \in delivery |-> number_of_failed_attempted_packages(st[s])])
        avg == guarded_division(n_packages, Cardinality(delivery))
        rejected == guarded_division(n_rejected * 1000, n_packages)
        delivered == guarded_division(n_delivered * 1000, n_packages)
        attempted == guarded_division(n_attempted * 100, n_packages)
        r0 == [NoStatus EXCEPT
                  !.evaluated = TRUE,
                  !.number_of_packages = n_packages,
                  !.number_of_delivery_stops = Cardinality(delivery),
                  !.number_of_pickup_stops = Cardinality(pickup),
                  !.number_of_delivered_packages = n_delivered,
                  !.number_of_rejected_packages = n_rejected,
                  !.number_of_failed_attempted_packages = n_attempted]
        r1 == IF avg.raised # "none" THEN [r0 EXCEPT !.raised = avg.raised]
              ELSE [r0 EXCEPT !.avg_packages_per_stop = avg.value,
                              !.warnings = @ \cup (IF avg.warned THEN {"avg"} ELSE {})]
        r2 == IF r1.raised # "none" THEN r1
              ELSE IF rejected.raised # "none"
              THEN [r1 EXCEPT !.raised = rejected.raised]
              ELSE [r1 EXCEPT !.rejected_packages_percentage = rejected.value,
                              !.warnings = @ \cup (IF rejected.warned
                                                   THEN {"rejected"} ELSE {})]
        r3 == IF r2.raised # "none" THEN r2
              ELSE IF delivered.raised # "none"
              THEN [r2 EXCEPT !.raised = delivered.raised]
              ELSE [r2 EXCEPT !.delivered_packages_percentage = delivered.value,
                              !.warnings = @ \cup (IF delivered.warned
                                                   THEN {"delivered"} ELSE {})]
    IN  IF r3.raised # "none" THEN r3
        ELSE IF attempted.raised # "none"
        THEN [r3 EXCEPT !.raised = attempted.raised]
        ELSE [r3 EXCEPT !.failed_attempted_packages_percentage = attempted.value,
                        !.warnings = @ \cup (IF attempted.warned
                                             THEN {"attempted"} ELSE {})]

evaluate_route_status ==
    /\ route_status' = route_status_of(stops)
    /\ UNCHANGED <<attrs, has, last, nblocks, completed, gd, stops, objectVars>>

StatusNext == evaluate_route_status

(***************************************************************************)
(* The requests of drive_distance_osm.  A request is the coordinates part  *)
(* of its URL, http://router.project-osrm.org/route/v1/driving/c1,c2;c3,c4 *)
(* written as <<c1, c2, c3, c4>>.                                          *)
(***************************************************************************)
\* utils.drive_distance_osm: lon1, lat1 = origin; lon2, lat2 = destination;
\* coordinates = f"{lon1},{lat1};{lon2},{lat2}"
osm_coordinates(origin, destination) ==
    <<origin[1], origin[2], destination[1], destination[2]>>

\* utilities.drive_distance_osm: origin[1], origin[0], destination[1],
\* destination[0]
utilities_osm_coordinates(origin, destination) ==
    <<origin[2], origin[1], destination[2], destination[1]>>

\* utils.__request_data_from_osm: one session.get, then the check of the
\* code; the error message holds origin and destination
request_data_from_osm(origin, destination, url, reply) ==
    [requests |-> <<url>>,
     raised |-> IF reply.code # "Ok" THEN "RuntimeError" ELSE "none",
     message |-> IF reply.code # "Ok" THEN <<reply.code, origin, destination>>
                 ELSE <<>>,
     warned |-> FALSE]

\* the request of utilities.drive_distance_osm: one session.get; a code
\* other than "Ok" is reported by warnings.warn and the function goes on
utilities_request_data_from_osm(origin, destination, url, reply) ==
    [requests |-> <<url>>,
     raised |-> "none",
     message |-> IF reply.code # "Ok" THEN <<reply.code, origin, destination>>
                 ELSE <<>>,
     warned |-> reply.code # "Ok"]

NoOsmCall ==
    [impl |-> "none", entry |-> "none", origin |-> <<0, 0>>,
     destination |-> <<0, 0>>, reply |-> AnyReply, requests |-> <<>>,
     message |-> <<>>, warned |-> FALSE, result |-> Raised("none", <<>>)]

\* the functions through which a caller reaches drive_distance_osm
OsmEntries == {"drive_distance_osm", "get_distance"}

\* a call of utils.drive_distance_osm, directly or as
\* utils.get_distance(origin, destination, "osm")
utils_drive_distance_osm ==
    \E origin, destination \in Locations, reply \in Replies, entry \in OsmEntries :
        \E res \in {request_data_from_osm(origin, destination,
                                          osm_coordinates(origin, destination),
                                          reply)} :
            /\ osm' = [impl |-> "utils", entry |-> entry, origin |-> origin,
                       destination |-> destination, reply |-> reply,
                       requests |-> res.requests, message |-> res.message,
                       warned |-> res.warned,
                       result |-> IF entry = "get_distance"
                                  THEN get_distance(origin, destination, "osm", reply)
                                  ELSE drive_distance_osm(origin, destination, reply)]
            /\ UNCHANGED <<attrs, has, last, nblocks, completed, gd, stops, route_status, pkg, pkgs, the_stop, hv, an, dm, adh, route_obj, fetch>>

\* a call of utilities.drive_distance_osm, directly or as
\* utilities.get_distance(origin, destination, "osm")
utilities_drive_distance_osm_call ==
    \E origin, destination \in Locations, reply \in Replies, entry \in OsmEntries :
        \E res \in {utilities_request_data_from_osm(
                        origin, destination,
                        utilities_osm_coordinates(origin, destination), reply)} :
            /\ osm' = [impl |-> "utilities", entry |-> entry, origin |-> origin,
                       destination |-> destination, reply |-> reply,
                       requests |-> res.requests, message |-> res.message,
                       warned |-> res.warned,
                       result |-> IF entry = "get_distance"
                                  THEN utilities_get_distance(origin, destination,
                                                              "osm", reply)
                                  ELSE utilities_drive_distance_osm(origin, destination,
                                                                    reply)]
            /\ UNCHANGED <<attrs, has, last, nblocks, completed, gd, stops, route_status, pkg, pkgs, the_stop, hv, an, dm, adh, route_obj, fetch>>

OsmNext == utils_drive_distance_osm \/ utilities_drive_distance_osm_call

(***************************************************************************)
(* Package (lmr_analyzer/package.py and source/package.py).                *)
(***************************************************************************)
PackageImpls == {"lmr_analyzer", "source"}

\* the status a caller passes: one of the four, or any other string
StatusInputs == PackageStatuses \cup {"invalid status"}

\* (depth, height, width)
Dimensions == {<<1, 1, 1>>, <<1, 2, 3>>, <<0, 2, 2>>, <<2, 2, 2>>, <<3, 1, 1>>,
               <<1, 1, 2>>}

\* package.calculate_volume / the volume property
calculate_volume(dimensions) == dimensions[1] * dimensions[2] * dimensions[3]

NoPackage ==
    [impl |-> "none", exists |-> FALSE, status |-> "-", dimensions |-> <<0, 0, 0>>,
     volume |-> 0, op |-> "none", arg |-> "-", raised |-> "none"]

\* variant of package_init that does not check the status
package_init_unchecked(impl, dimensions, status) ==
    [impl |-> impl, exists |-> TRUE, status |-> status,
     dimensions |-> dimensions, volume |-> calculate_volume(dimensions),
     op |-> "__init__", arg |-> status, raised |-> "none"]

\* package.__init__: a status outside the list raises ValueError and no
\* object is handed to the caller
package_init(impl, dimensions, status) ==
    IF status \notin {"to-be-delivered", "rejected", "attempted", "delivered"}
    THEN [NoPackage EXCEPT !.impl = impl, !.op = "__init__", !.arg = status,
                           !.raised = "ValueError"]
    ELSE [impl |-> impl, exists |-> TRUE, status |-> status,
          dimensions |-> dimensions, volume |-> calculate_volume(dimensions),
          op |-> "__init__", arg |-> status, raised |-> "none"]

\* package.modify_status: self.status = status
modify_status(p, status) ==
    [p EXCEPT !.status = status, !.op = "modify_status", !.arg = status,
              !.raised = "none"]

package_new ==
    \E impl \in PackageImpls, dimensions \in Dimensions, status \in StatusInputs :
        /\ pkg' = package_init(impl, dimensions, status)
        /\ UNCHANGED <<attrs, has, last, nblocks, completed, gd, stops, route_status, osm, pkgs, the_stop, hv, an, dm, adh, route_obj, fetch>>

package_modify_status ==
    /\ pkg.exists
    /\ \E status \in StatusInputs :
          /\ pkg' = modify_status(pkg, status)
          /\ UNCHANGED <<attrs, has, last, nblocks, completed, gd, stops, route_status, osm, pkgs, the_stop, hv, an, dm, adh, route_obj, fetch>>

PackageNext == package_new \/ package_modify_status

(***************************************************************************)
(* The Stop object (stop.py).  pkgs are the Package objects the caller     *)
(* built; the Stop refers to them by their position in pkgs, so a later    *)
(* modify_status on one of them is seen through packages_list, while       *)
(* status_list is the copy of the statuses taken by the constructor.       *)
(***************************************************************************)
\* (start, end) of a time window, in hours of one day
TimeWindows == {<<12, 12>>, <<12, 10>>}
LocationTypeInputs == LocationTypes \cup {"warehouse"}
\* the type of the packages argument
Containers == {"list", "dict", "tuple"}
\* the attributes of a Package the Stop reads
package_object(p) == [status |-> p.status, volume |-> p.volume]

\* the dimensions of n packages: all (1, 1, 1), or (1, 1, i) for the i-th
StopDimensions(n) == {[i \in 1..n |-> <<1, 1, 1>>], [i \in 1..n |-> <<1, 1, i>>]}

\* the lists of Package objects a caller can construct
PackageLists ==
    UNION {{[i \in 1..n |-> package_object(package_init("lmr_analyzer", d[i], s[i]))] :
                d \in StopDimensions(n), s \in [1..n -> PackageStatuses]} :
           n \in 0..MaxPackages}

NoStop ==
    [exists |-> FALSE, location_type |-> "-", time_window |-> <<0, 0>>,
     container |-> "-", packages |-> <<>>, packages_list |-> <<>>,
     status_list |-> <<>>, called |-> FALSE, raised |-> "none",
     arg_location_type |-> "-", arg_time_window |-> <<0, 0>>]

\* a constructor call that raised: no object is handed to the caller
stop_raise(location_type, time_window, error) ==
    [NoStop EXCEPT !.called = TRUE, !.raised = error,
                   !.arg_location_type = location_type,
                   !.arg_time_window = time_window]

\* stop.__init__ after its two checks: packages_list and status_list
stop_init_packages(location_type, time_window, container, objects) ==
    IF container \in {"dict", "list"}
    THEN [exists |-> TRUE, location_type |-> location_type,
          time_window |-> time_window, container |-> container,
          packages |-> [i \in 1..Len(objects) |-> i],
          packages_list |-> [i \in 1..Len(objects) |-> i],
          status_list |-> [i \in 1..Len(objects) |-> objects[i].status],
          called |-> TRUE, raised |-> "none",
          arg_location_type |-> location_type, arg_time_window |-> time_window]
    ELSE stop_raise(location_type, time_window, "TypeError")

\* variant of stop_init that accepts every location type
stop_init_any_location(location_type, time_window, container, objects) ==
    IF time_window[1] > time_window[2]
    THEN stop_raise(location_type, time_window, "ValueError")
    ELSE stop_init_packages(location_type, time_window, container, objects)

\* stop.__init__
stop_init(location_type, time_window, container, objects) ==
    IF time_window[1] > time_window[2]
    THEN stop_raise(location_type, time_window, "ValueError")
    ELSE IF location_type \notin {"depot", "pickup", "delivery"}
    THEN stop_raise(location_type, time_window, "ValueError")
    ELSE stop_init_packages(location_type, time_window, container, objects)

number_of_to_be_delivered_packages(stop) == Count(stop.status_list, "to-be-delivered")

\* sum([package.volume for package in packages_list if package.status in statuses])
RECURSIVE volume_of(_, _, _)
volume_of(packages_list, objects, statuses) ==
    IF packages_list = <<>> THEN 0
    ELSE (IF objects[Head(packages_list)].status \in statuses
          THEN objects[Head(packages_list)].volume ELSE 0)
         + volume_of(Tail(packages_list), objects, statuses)

\* the first definition of the property in the class body, replaced by the
\* second one of the same name when the class is created
total_volume_of_packages_shadowed(stop, objects) ==
    volume_of(stop.packages_list, objects, StatusInputs)

total_volume_of_delivered_packages(stop, objects) ==
    volume_of(stop.packages_list, objects, {"delivered"})

total_volume_of_rejected_packages(stop, objects) ==
    volume_of(stop.packages_list, objects, {"rejected"})

total_volume_of_failed_attempted_packages(stop, objects) ==
    volume_of(stop.packages_list, objects, {"attempted"})

\* the definition of total_volume_of_packages the class ends up with
total_volume_of_packages(stop, objects) ==
    volume_of(stop.packages_list, objects, {"to-be-delivered"})

\* the caller constructs the packages of a stop to be
stop_packages_new ==
    /\ pkgs = <<>> /\ ~the_stop.called
    /\ \E objects \in PackageLists :
        /\ pkgs' = objects
        /\ the_stop' = NoStop
        /\ UNCHANGED <<attrs, has, last, nblocks, completed, gd, stops, route_status, osm, pkg, hv, an, dm, adh, route_obj, fetch>>

\* modify_status on one of the packages, before or after the stop is built
stop_package_modify_status ==
    \E i \in 1..Len(pkgs), status \in StatusInputs :
        /\ pkgs' = [pkgs EXCEPT ![i].status =
                       modify_status([NoPackage EXCEPT !.exists = TRUE, !.status = @], status).status]
        /\ UNCHANGED <<attrs, has, last, nblocks, completed, gd, stops, route_status, osm, pkg, the_stop, hv, an, dm, adh, route_obj, fetch>>

\* the one Stop of the model is constructed once
stop_new ==
    /\ ~the_stop.called
    /\ \E location_type \in LocationTypeInputs, time_window \in TimeWindows, container \in Containers :
        /\ the_stop' = stop_init(location_type, time_window, container, pkgs)
        /\ UNCHANGED <<attrs, has, last, nblocks, completed, gd, stops, route_status, osm, pkg, pkgs, hv, an, dm, adh, route_obj, fetch>>

StopNext == stop_packages_new \/ stop_package_modify_status \/ stop_new

(***************************************************************************)
(* haversine in double precision.  A double x is written <<s, hi, lo, e>>  *)
(* with x = s * (hi * 2^27 + lo) * 2^e and 2^52 <= hi * 2^27 + lo < 2^53;  *)
(* 0.0 is <<0, 0, 0, 0>>.  The values of the formula, of math.sqrt and of   *)
(* math.asin are tabulated at the points below as the interpreter computes *)
(* them.                                                                   *)
(***************************************************************************)
DoublePoints ==
    {<<0, 0>>, <<0, 1>>, <<0, 90>>, <<0, 180>>, <<60, 0>>, <<60, 90>>, <<90, 0>>, <<-90, 0>>, <<-89, 0>>, <<-91, 180>>, <<-45, 0>>, <<-135, 180>>}

\* a = sin(d_lat / 2) ** 2 + cos(lat1) * cos(lat2) * sin(d_lon / 2) ** 2 as the
\* double the code computes, for <<lat1, lon1, lat2, lon2>> in degrees
HaversineA ==
    {
     <<<<0, 0, 0, 0>>, <<0, 0, 0, 0>>>>,
     <<<<0, 0, 0, 1>>, <<1, 41865236, 84370530, -66>>>>,
     <<<<0, 0, 0, 90>>, <<1, 67108863, 134217726, -54>>>>,
     <<<<0, 0, 0, 180>>, <<1, 33554432, 0, -52>>>>,
     <<<<0, 0, 60, 0>>, <<1, 67108863, 134217726, -55>>>>,
     <<<<0, 0, 60, 90>>, <<1, 67108863, 134217727, -54>>>>,
     <<<<0, 0, 90, 0>>, <<1, 67108863, 134217726, -54>>>>,
     <<<<0, 0, -90, 0>>, <<1, 67108863, 134217726, -54>>>>,
     <<<<0, 0, -89, 0>>, <<1, 65937652, 111390999, -54>>>>,
     <<<<0, 0, -91, 180>>, <<1, 65937652, 111390999, -54>>>>,
     <<<<0, 0, -45, 0>>, <<1, 39311462, 50432103, -55>>>>,
     <<<<0, 0, -135, 180>>, <<1, 39311462, 50432104, -55>>>>,
     <<<<0, 1, 0, 0>>, <<1, 41865236, 84370530, -66>>>>,
     <<<<0, 1, 0, 1>>, <<0, 0, 0, 0>>>>,
     <<<<0, 1, 0, 90>>, <<1, 65937652, 111390999, -54>>>>,
     <<<<0, 1, 0, 180>>, <<1, 67103753, 66770885, -53>>>>,
     <<<<0, 1, 60, 0>>, <<1, 33559542, 67446842, -54>>>>,
     <<<<0, 1, 60, 90>>, <<1, 66523258, 55695500, -54>>>>,
     <<<<0, 1, 90, 0>>, <<1, 67108863, 134217726, -54>>>>,
     <<<<0, 1, -90, 0>>, <<1, 67108863, 134217726, -54>>>>,
     <<<<0, 1, -89, 0>>, <<1, 65937831, 28328223, -54>>>>,
     <<<<0, 1, -91, 180>>, <<1, 65937831, 28328222, -54>>>>,
     <<<<0, 1, -45, 0>>, <<1, 39325917, 8011703, -55>>>>,
     <<<<0, 1, -135, 180>>, <<1, 39325917, 8011704, -55>>>>,
     <<<<0, 90, 0, 0>>, <<1, 67108863, 134217726, -54>>>>,
     <<<<0, 90, 0, 1>>, <<1, 65937652, 111390999, -54>>>>,
     <<<<0, 90, 0, 90>>, <<0, 0, 0, 0>>>>,
     <<<<0, 90, 0, 180>>, <<1, 67108863, 134217726, -54>>>>,
     <<<<0, 90, 60, 0>>, <<1, 67108863, 134217727, -54>>>>,
     <<<<0, 90, 60, 90>>, <<1, 67108863, 134217726, -55>>>>,
     <<<<0, 90, 90, 0>>, <<1, 67108863, 134217727, -54>>>>,
     <<<<0, 90, -90, 0>>, <<1, 67108863, 134217727, -54>>>>,
     <<<<0, 90, -89, 0>>, <<1, 33554432, 0, -53>>>>,
     <<<<0, 90, -91, 180>>, <<1, 67108863, 134217727, -54>>>>,
     <<<<0, 90, -45, 0>>, <<1, 33554432, 0, -53>>>>,
     <<<<0, 90, -135, 180>>, <<1, 33554432, 0, -53>>>>,
     <<<<0, 180, 0, 0>>, <<1, 33554432, 0, -52>>>>,
     <<<<0, 180, 0, 1>>, <<1, 67103753, 66770885, -53>>>>,
     <<<<0, 180, 0, 90>>, <<1, 67108863, 134217726, -54>>>>,
     <<<<0, 180, 0, 180>>, <<0, 0, 0, 0>>>>,
     <<<<0, 180, 60, 0>>, <<1, 50331648, 0, -53>>>>,
     <<<<0, 180, 60, 90>>, <<1, 67108863, 134217727, -54>>>>,
     <<<<0, 180, 90, 0>>, <<1, 67108863, 134217727, -54>>>>,
     <<<<0, 180, -90, 0>>, <<1, 67108863, 134217727, -54>>>>,
     <<<<0, 180, -89, 0>>, <<1, 34140037, 78522229, -53>>>>,
     <<<<0, 180, -91, 180>>, <<1, 34140037, 78522228, -53>>>>,
     <<<<0, 180, -45, 0>>, <<1, 57280998, 54500839, -53>>>>,
     <<<<0, 180, -135, 180>>, <<1, 57280998, 54500838, -53>>>>,
     <<<<60, 0, 0, 0>>, <<1, 67108863, 134217726, -55>>>>,
     <<<<60, 0, 0, 1>>, <<1, 33559542, 67446842, -54>>>>,
     <<<<60, 0, 0, 90>>, <<1, 67108863, 134217727, -54>>>>,
     <<<<60, 0, 0, 180>>, <<1, 50331648, 0, -53>>>>,
     <<<<60, 0, 60, 0>>, <<0, 0, 0, 0>>>>,
     <<<<60, 0, 60, 90>>, <<1, 33554432, 1, -55>>>>,
     <<<<60, 0, 90, 0>>, <<1, 35963531, 111070551, -56>>>>,
     <<<<60, 0, -90, 0>>, <<1, 62613422, 70002260, -53>>>>,
     <<<<60, 0, -89, 0>>, <<1, 62316193, 121337198, -53>>>>,
     <<<<60, 0, -91, 180>>, <<1, 62316193, 121337199, -53>>>>,
     <<<<60, 0, -45, 0>>, <<1, 42238958, 6603172, -53>>>>,
     <<<<60, 0, -135, 180>>, <<1, 42238958, 6603174, -53>>>>,
     <<<<60, 90, 0, 0>>, <<1, 67108863, 134217727, -54>>>>,
     <<<<60, 90, 0, 1>>, <<1, 66523258, 55695500, -54>>>>,
     <<<<60, 90, 0, 90>>, <<1, 67108863, 134217726, -55>>>>,
     <<<<60, 90, 0, 180>>, <<1, 67108863, 134217727, -54>>>>,
     <<<<60, 90, 60, 0>>, <<1, 33554432, 1, -55>>>>,
     <<<<60, 90, 60, 90>>, <<0, 0, 0, 0>>>>,
     <<<<60, 90, 90, 0>>, <<1, 35963531, 111070552, -56>>>>,
     <<<<60, 90, -90, 0>>, <<1, 62613422, 70002260, -53>>>>,
     <<<<60, 90, -89, 0>>, <<1, 62608996, 93489448, -53>>>>,
     <<<<60, 90, -91, 180>>, <<1, 62608996, 93489449, -53>>>>,
     <<<<60, 90, -45, 0>>, <<1, 54102241, 33853591, -53>>>>,
     <<<<60, 90, -135, 180>>, <<1, 54102241, 33853593, -53>>>>,
     <<<<90, 0, 0, 0>>, <<1, 67108863, 134217726, -54>>>>,
     <<<<90, 0, 0, 1>>, <<1, 67108863, 134217726, -54>>>>,
     <<<<90, 0, 0, 90>>, <<1, 67108863, 134217727, -54>>>>,
     <<<<90, 0, 0, 180>>, <<1, 67108863, 134217727, -54>>>>,
     <<<<90, 0, 60, 0>>, <<1, 35963531, 111070551, -56>>>>,
     <<<<90, 0, 60, 90>>, <<1, 35963531, 111070552, -56>>>>,
     <<<<90, 0, 90, 0>>, <<0, 0, 0, 0>>>>,
     <<<<90, 0, -90, 0>>, <<1, 33554432, 0, -52>>>>,
     <<<<90, 0, -89, 0>>, <<1, 67103753, 66770885, -53>>>>,
     <<<<90, 0, -91, 180>>, <<1, 67103753, 66770885, -53>>>>,
     <<<<90, 0, -45, 0>>, <<1, 57280998, 54500838, -53>>>>,
     <<<<90, 0, -135, 180>>, <<1, 57280998, 54500838, -53>>>>,
     <<<<-90, 0, 0, 0>>, <<1, 67108863, 134217726, -54>>>>,
     <<<<-90, 0, 0, 1>>, <<1, 67108863, 134217726, -54>>>>,
     <<<<-90, 0, 0, 90>>, <<1, 67108863, 134217727, -54>>>>,
     <<<<-90, 0, 0, 180>>, <<1, 67108863, 134217727, -54>>>>,
     <<<<-90, 0, 60, 0>>, <<1, 62613422, 70002260, -53>>>>,
     <<<<-90, 0, 60, 90>>, <<1, 62613422, 70002260, -53>>>>,
     <<<<-90, 0, 90, 0>>, <<1, 33554432, 0, -52>>>>,
     <<<<-90, 0, -90, 0>>, <<0, 0, 0, 0>>>>,
     <<<<-90, 0, -89, 0>>, <<1, 41865236, 84370546, -66>>>>,
     <<<<-90, 0, -91, 180>>, <<1, 41865236, 84370467, -66>>>>,
     <<<<-90, 0, -45, 0>>, <<1, 39311462, 50432103, -55>>>>,
     <<<<-90, 0, -135, 180>>, <<1, 39311462, 50432101, -55>>>>,
     <<<<-89, 0, 0, 0>>, <<1, 65937652, 111390999, -54>>>>,
     <<<<-89, 0, 0, 1>>, <<1, 65937831, 28328223, -54>>>>,
     <<<<-89, 0, 0, 90>>, <<1, 33554432, 0, -53>>>>,
     <<<<-89, 0, 0, 180>>, <<1, 34140037, 78522229, -53>>>>,
     <<<<-89, 0, 60, 0>>, <<1, 62316193, 121337198, -53>>>>,
     <<<<-89, 0, 60, 90>>, <<1, 62608996, 93489448, -53>>>>,
     <<<<-89, 0, 90, 0>>, <<1, 67103753, 66770885, -53>>>>,
     <<<<-89, 0, -90, 0>>, <<1, 41865236, 84370546, -66>>>>,
     <<<<-89, 0, -89, 0>>, <<0, 0, 0, 0>>>>,
     <<<<-89, 0, -91, 180>>, <<-1, 33554432, 0, -116>>>>,
     <<<<-89, 0, -45, 0>>, <<1, 37669574, 45442446, -55>>>>,
     <<<<-89, 0, -135, 180>>, <<1, 37669574, 45442445, -55>>>>,
     <<<<-91, 180, 0, 0>>, <<1, 65937652, 111390999, -54>>>>,
     <<<<-91, 180, 0, 1>>, <<1, 65937831, 28328222, -54>>>>,
     <<<<-91, 180, 0, 90>>, <<1, 67108863, 134217727, -54>>>>,
     <<<<-91, 180, 0, 180>>, <<1, 34140037, 78522228, -53>>>>,
     <<<<-91, 180, 60, 0>>, <<1, 62316193, 121337199, -53>>>>,
     <<<<-91, 180, 60, 90>>, <<1, 62608996, 93489449, -53>>>>,
     <<<<-91, 180, 90, 0>>, <<1, 67103753, 66770885, -53>>>>,
     <<<<-91, 180, -90, 0>>, <<1, 41865236, 84370467, -66>>>>,
     <<<<-91, 180, -89, 0>>, <<-1, 33554432, 0, -116>>>>,
     <<<<-91, 180, -91, 180>>, <<0, 0, 0, 0>>>>,
     <<<<-91, 180, -45, 0>>, <<1, 37669574, 45442448, -55>>>>,
     <<<<-91, 180, -135, 180>>, <<1, 37669574, 45442446, -55>>>>,
     <<<<-45, 0, 0, 0>>, <<1, 39311462, 50432103, -55>>>>,
     <<<<-45, 0, 0, 1>>, <<1, 39325917, 8011703, -55>>>>,
     <<<<-45, 0, 0, 90>>, <<1, 33554432, 0, -53>>>>,
     <<<<-45, 0, 0, 180>>, <<1, 57280998, 54500839, -53>>>>,
     <<<<-45, 0, 60, 0>>, <<1, 42238958, 6603172, -53>>>>,
     <<<<-45, 0, 60, 90>>, <<1, 54102241, 33853591, -53>>>>,
     <<<<-45, 0, 90, 0>>, <<1, 57280998, 54500838, -53>>>>,
     <<<<-45, 0, -90, 0>>, <<1, 39311462, 50432103, -55>>>>,
     <<<<-45, 0, -89, 0>>, <<1, 37669574, 45442446, -55>>>>,
     <<<<-45, 0, -91, 180>>, <<1, 37669574, 45442448, -55>>>>,
     <<<<-45, 0, -45, 0>>, <<0, 0, 0, 0>>>>,
     <<<<-45, 0, -135, 180>>, <<-1, 33554432, 0, -105>>>>,
     <<<<-135, 180, 0, 0>>, <<1, 39311462, 50432104, -55>>>>,
     <<<<-135, 180, 0, 1>>, <<1, 39325917, 8011704, -55>>>>,
     <<<<-135, 180, 0, 90>>, <<1, 33554432, 0, -53>>>>,
     <<<<-135, 180, 0, 180>>, <<1, 57280998, 54500838, -53>>>>,
     <<<<-135, 180, 60, 0>>, <<1, 42238958, 6603174, -53>>>>,
     <<<<-135, 180, 60, 90>>, <<1, 54102241, 33853593, -53>>>>,
     <<<<-135, 180, 90, 0>>, <<1, 57280998, 54500838, -53>>>>,
     <<<<-135, 180, -90, 0>>, <<1, 39311462, 50432101, -55>>>>,
     <<<<-135, 180, -89, 0>>, <<1, 37669574, 45442445, -55>>>>,
     <<<<-135, 180, -91, 180>>, <<1, 37669574, 45442446, -55>>>>,
     <<<<-135, 180, -45, 0>>, <<-1, 33554432, 0, -105>>>>,
     <<<<-135, 180, -135, 180>>, <<0, 0, 0, 0>>>>
    }

\* math.sqrt at the values of a that are not negative
SqrtTable ==
    {
     <<<<0, 0, 0, 0>>, <<0, 0, 0, 0>>>>,
     <<<<1, 41865236, 84370467, -66>>, <<1, 37480184, 76893189, -59>>>>,
     <<<<1, 41865236, 84370530, -66>>, <<1, 37480184, 76893217, -59>>>>,
     <<<<1, 41865236, 84370546, -66>>, <<1, 37480184, 76893224, -59>>>>,
     <<<<1, 35963531, 111070551, -56>>, <<1, 34738104, 26412689, -54>>>>,
     <<<<1, 35963531, 111070552, -56>>, <<1, 34738104, 26412689, -54>>>>,
     <<<<1, 33554432, 1, -55>>, <<1, 47453132, 109001677, -54>>>>,
     <<<<1, 37669574, 45442445, -55>>, <<1, 50278845, 115709568, -54>>>>,
     <<<<1, 37669574, 45442446, -55>>, <<1, 50278845, 115709569, -54>>>>,
     <<<<1, 37669574, 45442448, -55>>, <<1, 50278845, 115709570, -54>>>>,
     <<<<1, 39311462, 50432101, -55>>, <<1, 51362900, 112109922, -54>>>>,
     <<<<1, 39311462, 50432103, -55>>, <<1, 51362900, 112109923, -54>>>>,
     <<<<1, 39311462, 50432104, -55>>, <<1, 51362900, 112109924, -54>>>>,
     <<<<1, 39325917, 8011703, -55>>, <<1, 51372342, 126803680, -54>>>>,
     <<<<1, 39325917, 8011704, -55>>, <<1, 51372342, 126803681, -54>>>>,
     <<<<1, 67108863, 134217726, -55>>, <<1, 67108863, 134217727, -54>>>>,
     <<<<1, 33559542, 67446842, -54>>, <<1, 33556987, 20665797, -53>>>>,
     <<<<1, 65937652, 111390999, -54>>, <<1, 47037224, 66335602, -53>>>>,
     <<<<1, 65937831, 28328222, -54>>, <<1, 47037288, 15985077, -53>>>>,
     <<<<1, 65937831, 28328223, -54>>, <<1, 47037288, 15985077, -53>>>>,
     <<<<1, 66523258, 55695500, -54>>, <<1, 47245636, 42412224, -53>>>>,
     <<<<1, 67108863, 134217726, -54>>, <<1, 47453132, 109001676, -53>>>>,
     <<<<1, 67108863, 134217727, -54>>, <<1, 47453132, 109001676, -53>>>>,
     <<<<1, 33554432, 0, -53>>, <<1, 47453132, 109001677, -53>>>>,
     <<<<1, 34140037, 78522228, -53>>, <<1, 47865427, 52375366, -53>>>>,
     <<<<1, 34140037, 78522229, -53>>, <<1, 47865427, 52375366, -53>>>>,
     <<<<1, 42238958, 6603172, -53>>, <<1, 53241041, 56042642, -53>>>>,
     <<<<1, 42238958, 6603174, -53>>, <<1, 53241041, 56042643, -53>>>>,
     <<<<1, 50331648, 0, -53>>, <<1, 58117981, 5786794, -53>>>>,
     <<<<1, 54102241, 33853591, -53>>, <<1, 60255621, 98226382, -53>>>>,
     <<<<1, 54102241, 33853593, -53>>, <<1, 60255621, 98226383, -53>>>>,
     <<<<1, 57280998, 54500838, -53>>, <<1, 62000505, 120753478, -53>>>>,
     <<<<1, 57280998, 54500839, -53>>, <<1, 62000505, 120753479, -53>>>>,
     <<<<1, 62316193, 121337198, -53>>, <<1, 64668145, 4111873, -53>>>>,
     <<<<1, 62316193, 121337199, -53>>, <<1, 64668145, 4111873, -53>>>>,
     <<<<1, 62608996, 93489448, -53>>, <<1, 64819893, 120048471, -53>>>>,
     <<<<1, 62608996, 93489449, -53>>, <<1, 64819893, 120048471, -53>>>>,
     <<<<1, 62613422, 70002260, -53>>, <<1, 64822184, 122208020, -53>>>>,
     <<<<1, 67103753, 66770885, -53>>, <<1, 67106308, 93964749, -53>>>>,
     <<<<1, 33554432, 0, -52>>, <<1, 33554432, 0, -52>>>>
    }

\* 6371 * (2 * asin(x)) at the square roots that are at most 1
KmTable ==
    {
     <<<<0, 0, 0, 0>>, <<0, 0, 0, 0>>>>,
     <<<<1, 37480184, 76893189, -59>>, <<1, 58298165, 94035905, -46>>>>,
     <<<<1, 37480184, 76893217, -59>>, <<1, 58298165, 94035948, -46>>>>,
     <<<<1, 37480184, 76893224, -59>>, <<1, 58298165, 94035959, -46>>>>,
     <<<<1, 34738104, 26412689, -54>>, <<1, 54654530, 46215662, -41>>>>,
     <<<<1, 47453132, 109001677, -54>>, <<1, 37720390, 107639325, -40>>>>,
     <<<<1, 50278845, 115709568, -54>>, <<1, 40079988, 123369969, -40>>>>,
     <<<<1, 50278845, 115709569, -54>>, <<1, 40079988, 123369970, -40>>>>,
     <<<<1, 50278845, 115709570, -54>>, <<1, 40079988, 123369971, -40>>>>,
     <<<<1, 51362900, 112109922, -54>>, <<1, 40990897, 101770609, -40>>>>,
     <<<<1, 51362900, 112109923, -54>>, <<1, 40990897, 101770610, -40>>>>,
     <<<<1, 51362900, 112109924, -54>>, <<1, 40990897, 101770611, -40>>>>,
     <<<<1, 51372342, 126803680, -54>>, <<1, 40998846, 17510938, -40>>>>,
     <<<<1, 51372342, 126803681, -54>>, <<1, 40998846, 17510939, -40>>>>,
     <<<<1, 67108863, 134217727, -54>>, <<1, 54654530, 46215661, -40>>>>,
     <<<<1, 33556987, 20665797, -53>>, <<1, 54659119, 76786810, -40>>>>,
     <<<<1, 47037224, 66335602, -53>>, <<1, 40535443, 45461426, -39>>>>,
     <<<<1, 47037288, 15985077, -53>>, <<1, 40535512, 95787296, -39>>>>,
     <<<<1, 47245636, 42412224, -53>>, <<1, 40763179, 29508646, -39>>>>,
     <<<<1, 47453132, 109001676, -53>>, <<1, 40990897, 101770609, -39>>>>,
     <<<<1, 47453132, 109001677, -53>>, <<1, 40990897, 101770611, -39>>>>,
     <<<<1, 47865427, 52375366, -53>>, <<1, 41446352, 23862066, -39>>>>,
     <<<<1, 53241041, 56042642, -53>>, <<1, 47822714, 6884272, -39>>>>,
     <<<<1, 53241041, 56042643, -53>>, <<1, 47822714, 6884273, -39>>>>,
     <<<<1, 58117981, 5786794, -53>>, <<1, 54654530, 46215661, -39>>>>,
     <<<<1, 60255621, 98226382, -53>>, <<1, 58189423, 24547127, -39>>>>,
     <<<<1, 60255621, 98226383, -53>>, <<1, 58189423, 24547129, -39>>>>,
     <<<<1, 62000505, 120753478, -53>>, <<1, 61486346, 85547051, -39>>>>,
     <<<<1, 62000505, 120753479, -53>>, <<1, 61486346, 85547052, -39>>>>,
     <<<<1, 64668145, 4111873, -53>>, <<1, 33931354, 34284628, -38>>>>,
     <<<<1, 64819893, 120048471, -53>>, <<1, 34155640, 32610625, -38>>>>,
     <<<<1, 64822184, 122208020, -53>>, <<1, 34159081, 62439219, -38>>>>,
     <<<<1, 67106308, 93964749, -53>>, <<1, 40763170, 73616027, -38>>>>,
     <<<<1, 33554432, 0, -52>>, <<1, 40990897, 101770610, -38>>>>
    }

DoubleZero == <<0, 0, 0, 0>>

\* x < 0
IsNegative(x) == x[1] = -1

\* x > 1
ExceedsOne(x) ==
    x[1] = 1 /\ (x[4] > -52 \/ (x[4] = -52 /\ (x[2] > 33554432 \/ x[3] > 0)))

Lookup(table, key) == (CHOOSE p \in table : p[1] = key)[2]

\* haversine on doubles: math.sqrt raises ValueError (math domain error) for
\* a negative argument, math.asin for an argument above 1
haversine_double(lat1, lon1, lat2, lon2) ==
    LET a == Lookup(HaversineA, <<lat1, lon1, lat2, lon2>>)
    IN  IF IsNegative(a)
        THEN [raised |-> "ValueError", value |-> DoubleZero]
        ELSE IF ExceedsOne(Lookup(SqrtTable, a))
        THEN [raised |-> "ValueError", value |-> DoubleZero]
        ELSE [raised |-> "none", value |-> Lookup(KmTable, Lookup(SqrtTable, a))]

NoHaversineCall ==
    [called |-> FALSE, point1 |-> <<0, 0>>, point2 |-> <<0, 0>>,
     result |-> [raised |-> "none", value |-> DoubleZero]]

haversine_call ==
    \E point1, point2 \in DoublePoints :
        /\ hv' = [called |-> TRUE, point1 |-> point1, point2 |-> point2,
                  result |-> haversine_double(point1[1], point1[2],
                                              point2[1], point2[2])]
        /\ UNCHANGED <<attrs, has, last, nblocks, completed, gd, stops, route_status, osm, pkg, pkgs, the_stop, an, dm, adh, route_obj, fetch>>

HaversineNext == haversine_call

(***************************************************************************)
(* analysis (analysis.py).  A route of the analysis is its name, its stops *)
(* and the attributes evaluate_route_status has set on it: the class sets  *)
(* route_status_dict, and no method sets an attribute named route_status.  *)
(***************************************************************************)
AnalysisRouteNames == {"R1", "R2"}

\* the stops of a route of the analysis
AnalysisStops ==
    {Stop("delivery", <<>>), Stop("delivery", <<"delivered", "rejected">>),
     Stop("pickup", <<"attempted">>)}

\* a route object, before or after its evaluate_route_status was called
AnalysisRoute(name, route_stops, evaluated) ==
    [name |-> name, stops |-> route_stops,
     attributes |-> IF evaluated THEN {"route_status_dict"} ELSE {},
     route_status_dict |-> IF evaluated THEN route_status_of(route_stops) ELSE NoStatus]

AnalysisRoutes ==
    {AnalysisRoute(n, s, e) : n \in AnalysisRouteNames,
                              s \in [StopNames -> AnalysisStops], e \in BOOLEAN}

RouteLists == UNION {[1..n -> AnalysisRoutes] : n \in 0..MaxRoutes}

NoAnalysis ==
    [exists |-> FALSE, routes |-> <<>>, op |-> "none", raised |-> "none",
     attributes |-> {}, total_number_of_packages |-> 0, delivered_packages |-> 0,
     attempted_packages |-> 0, rejected_packages |-> 0,
     delivered_packages_percentage |-> NaN, attempted_packages_percentage |-> NaN,
     rejected_packages_percentage |-> NaN]

\* analysis.__init__: routes must be a list
analysis_init(is_list, routes) ==
    IF ~is_list THEN [NoAnalysis EXCEPT !.op = "__init__", !.raised = "TypeError"]
    ELSE [NoAnalysis EXCEPT !.exists = TRUE, !.routes = routes, !.op = "__init__"]

\* the positions in routes of the values of routes_dict = {x.name: x for x
\* in routes}: one per name, in the order of the first route of that name,
\* each the position of the last route of that name
RoutesDictValues(routes) ==
    LET firsts == {i \in 1..Len(routes) : \A j \in 1..(i - 1) : routes[j].name # routes[i].name}
        last_of(i) == CHOOSE j \in 1..Len(routes) :
                          /\ routes[j].name = routes[i].name
                          /\ \A k \in (j + 1)..Len(routes) : routes[k].name # routes[i].name
        ordered[k \in 0..Cardinality(firsts)] ==
            IF k = 0 THEN <<>>
            ELSE LET i == CHOOSE x \in firsts :
                              Cardinality({y \in firsts : y < x}) = k - 1
                 IN  Append(ordered[k - 1], last_of(i))
    IN  ordered[Cardinality(firsts)]

\* sum([x.route_status[key] for x in self.routes_dict.values()]), read from
\* the dictionary evaluate_route_status builds
RECURSIVE SumStatus(_, _, _)
SumStatus(routes, positions, key) ==
    IF positions = <<>> THEN 0
    ELSE routes[Head(positions)].route_status_dict[key]
         + SumStatus(routes, Tail(positions), key)

\* the keys of the dictionary evaluate_route_status builds
RouteStatusKeys ==
    {"number_of_packages", "number_of_delivery_stops", "number_of_pickup_stops",
     "number_of_delivered_packages", "number_of_rejected_packages",
     "number_of_failed_attempted_packages", "avg_packages_per_stop",
     "rejected_packages_percentage", "delivered_packages_percentage",
     "failed_attempted_packages_percentage"}

\* calculate_routes_status after its loop, every route having route_status:
\* the sums and the three divisions, none of them guarded
calculate_routes_status_totals(a, positions) ==
    LET total == SumStatus(a.routes, positions, "number_of_packages")
        delivered == SumStatus(a.routes, positions, "number_of_delivered_packages")
        rejected == SumStatus(a.routes, positions, "number_of_rejected_packages")
        a1 == [a EXCEPT !.attributes = @ \cup {"routes_status", "total_number_of_packages",
                                                "delivered_packages"},
                        !.total_number_of_packages = total,
                        !.delivered_packages = delivered]
    IN  IF total = 0 THEN [a1 EXCEPT !.raised = "ZeroDivisionError"]
        ELSE IF "number_of_attempted_packages" \notin RouteStatusKeys
        THEN [a1 EXCEPT !.attributes = @ \cup {"delivered_packages_percentage"},
                        !.delivered_packages_percentage = Rat(delivered, total),
                        !.raised = "KeyError"]
        ELSE [a1 EXCEPT !.attributes = @ \cup {"delivered_packages_percentage",
                                               "attempted_packages", "attempted_packages_percentage",
                                               "rejected_packages", "rejected_packages_percentage"},
                        !.delivered_packages_percentage = Rat(delivered, total),
                        !.rejected_packages = rejected,
                        !.rejected_packages_percentage = Rat(rejected, Len(positions))]

\* analysis.calculate_routes_status: for the first route without the
\* attribute route_status the except clause calls evaluate_route_status and
\* reads route.route_status again, outside any try
calculate_routes_status(a) ==
    LET positions == RoutesDictValues(a.routes)
        missing == {k \in 1..Len(positions) :
                        "route_status" \notin a.routes[positions[k]].attributes}
        a0 == [a EXCEPT !.op = "calculate_routes_status", !.raised = "none"]
    IN  IF missing # {}
        THEN LET k == CHOOSE x \in missing : \A y \in missing : x <= y
                 i == positions[k]
             IN  [a0 EXCEPT !.routes[i].attributes = @ \cup {"route_status_dict"},
                            !.routes[i].route_status_dict = route_status_of(a.routes[i].stops),
                            !.raised = "AttributeError"]
        ELSE calculate_routes_status_totals(a0, positions)

\* the one analysis of the model is constructed once
analysis_new ==
    /\ an.op = "none"
    /\ \E is_list \in BOOLEAN, routes \in RouteLists :
        /\ an' = analysis_init(is_list, routes)
        /\ UNCHANGED <<attrs, has, last, nblocks, completed, gd, stops, route_status, osm, pkg, pkgs, the_stop, hv, dm, adh, route_obj, fetch>>

analysis_calculate_routes_status ==
    /\ an.exists
    /\ \E a \in {calculate_routes_status(an)} :
          /\ an' = a
          /\ UNCHANGED <<attrs, has, last, nblocks, completed, gd, stops, route_status, osm, pkg, pkgs, the_stop, hv, dm, adh, route_obj, fetch>>

AnalysisNext == analysis_new \/ analysis_calculate_routes_status

(***************************************************************************)
(* DistanceMatrix (distance_matrix.py).  A matrix dictionary is written as *)
(* the sequence of its items in insertion order: origin name and row, the  *)
(* row being the sequence of destination name and distance.                *)
(***************************************************************************)
\* the value None of an attribute
NoneValue == <<>>

MatrixRows ==
    {<<[name |-> "a", distance |-> Num(x)], [name |-> "b", distance |-> Num(y)]>> :
         x, y \in {0, 5}}

MatrixDicts ==
    {<<>>} \cup {<<[name |-> "a", row |-> r]>> : r \in MatrixRows}
           \cup {<<[name |-> "a", row |-> r1], [name |-> "b", row |-> r2]>> :
                     r1, r2 \in MatrixRows}

\* the lists a caller assigns to the attribute distances
DistanceLists ==
    UNION {[1..n -> {Num(0), Num(5), Num(15), Num(25)}] : n \in 0..MaxDistances}

\* np.std: the square root of the mean of the squared deviations from the
\* mean, kept as <<"sqrt", variance>>
np_std(arr) ==
    LET m == np_mean(arr)
        dev(i) == NumAdd(arr[i], NumMul(Num(-1), m))
    IN  <<"sqrt", np_mean([i \in 1..Len(arr) |-> NumMul(dev(i), dev(i))])>>

NoDistanceMatrix ==
    [exists |-> FALSE, op |-> "none", raised |-> "none", arg_given |-> FALSE,
     matrix |-> NoneValue, matrix_is_none |-> TRUE, origins_is_none |-> TRUE,
     attributes |-> {}, distances |-> <<>>,
     max_distance |-> NoneValue, min_distance |-> NoneValue,
     average_distance |-> NoneValue, std_distance |-> NoneValue,
     n_origins |-> NoneValue, n_destinations |-> NoneValue, n_distances |-> NoneValue,
     origins_names |-> <<>>, destinations_names |-> <<>>,
     routes_matrix |-> EmptyDict, file |-> <<>>]

\* DistanceMatrix.calculate_matrix_statistics: np.max and np.min raise
\* ValueError on an empty array, len(None) raises TypeError
calculate_matrix_statistics(d) ==
    IF "distances" \notin d.attributes THEN [d EXCEPT !.raised = "AttributeError"]
    ELSE IF d.distances = <<>> THEN [d EXCEPT !.raised = "ValueError"]
    ELSE LET d1 == [d EXCEPT !.max_distance = np_max(d.distances),
                             !.min_distance = np_min(d.distances),
                             !.average_distance = np_mean(d.distances),
                             !.std_distance = np_std(d.distances)]
         IN  IF d.origins_is_none THEN [d1 EXCEPT !.raised = "TypeError"]
             ELSE [d1 EXCEPT !.n_origins = <<0>>, !.n_destinations = <<0>>,
                             !.n_distances = <<Len(d.distances)>>]

\* DistanceMatrix.__init__(matrix, origins, destinations); coordinates tells
\* whether origins and destinations are given (as empty dictionaries) or None
distance_matrix_init(matrix_given, matrix, coordinates) ==
    LET d0 == [NoDistanceMatrix EXCEPT !.op = "__init__", !.arg_given = matrix_given,
                                       !.matrix = matrix,
                                       !.matrix_is_none = ~matrix_given,
                                       !.origins_is_none = ~coordinates]
    IN  IF ~matrix_given THEN [d0 EXCEPT !.exists = TRUE]
        ELSE LET d1 == calculate_matrix_statistics(d0)
             IN  IF d1.raised # "none" THEN d1
                 ELSE IF matrix = <<>>
                 THEN [d1 EXCEPT !.attributes = @ \cup {"origins_names"},
                                 !.raised = "IndexError"]
                 ELSE [d1 EXCEPT !.exists = TRUE,
                                 !.attributes = @ \cup {"origins_names", "destinations_names"},
                                 !.origins_names = [i \in 1..Len(matrix) |-> matrix[i].name],
                                 !.destinations_names =
                                     [i \in 1..Len(matrix[1].row) |-> matrix[1].row[i].name]]

\* the one DistanceMatrix of the model is constructed once
distance_matrix_new ==
    /\ dm.op = "none"
    /\ \E matrix_given \in BOOLEAN, matrix \in MatrixDicts, coordinates \in BOOLEAN :
        /\ ~matrix_given => matrix = <<>>
        /\ dm' = distance_matrix_init(matrix_given, matrix, coordinates)
        /\ UNCHANGED <<attrs, has, last, nblocks, completed, gd, stops, route_status, osm, pkg, pkgs, the_stop, hv, an, adh, route_obj, fetch>>

\* dm.distances = distances, as tests/test_distance_matrix.py does
distance_matrix_set_distances ==
    /\ dm.exists
    /\ \E distances \in DistanceLists :
        /\ dm' = [dm EXCEPT !.op = "distances", !.raised = "none",
                            !.attributes = @ \cup {"distances"},
                            !.distances = distances]
        /\ UNCHANGED <<attrs, has, last, nblocks, completed, gd, stops, route_status, osm, pkg, pkgs, the_stop, hv, an, adh, route_obj, fetch>>

distance_matrix_calculate_matrix_statistics ==
    /\ dm.exists
    /\ dm' = calculate_matrix_statistics(
                 [dm EXCEPT !.op = "calculate_matrix_statistics", !.raised = "none"])
    /\ UNCHANGED <<attrs, has, last, nblocks, completed, gd, stops, route_status, osm, pkg, pkgs, the_stop, hv, an, adh, route_obj, fetch>>

\* the data rows of a support matrix file, after its header line: route,
\* stop, lat, lon, distance_to_next_stop(km), duration(min), grouped by
\* route; the rows of the model keep the route, the stop (its row number)
\* and the text of the distance (the row number in decimal digits, in km
\* or in tens of km)
SupportRow(route, i, tens) ==
    [route |-> route, stop |-> i,
     distance |-> <<"str", IF tens THEN <<i, 0>> ELSE <<i>>>>]

SupportFiles ==
    {<<>>}
        \cup UNION {{[i \in 1..m |->
                         SupportRow(IF i <= split THEN "R1" ELSE "R2", i, tens)] :
                        split \in 1..m, tens \in BOOLEAN} : m \in 1..MaxRows}

\* dict[key] = value
DictSet(d, key, value) ==
    [x \in DOMAIN d \cup {key} |-> IF x = key THEN value ELSE d[x]]

\* the loop of load_support_matrix_file from matrix[i] on, where matrix[i]
\* of the code is rows[i + 1]; c holds route, inner_dict, routes_matrix and
\* distances.  matrix[i + 1] exists for every i < n_rows - 1, so the except
\* clause is never entered
RECURSIVE load_rows_from(_, _, _)
load_rows_from(c, rows, i) ==
    IF i >= Len(rows) - 1 THEN c
    ELSE LET row == rows[i + 1]
             inner_dict == DictSet(c.inner_dict, row.stop,
                                   [x \in {DistanceKey} |-> row.distance])
             distances == Append(c.distances, float(row.distance))
         IN  IF rows[i + 2].route = c.route
             THEN load_rows_from([c EXCEPT !.inner_dict = inner_dict,
                                           !.distances = distances],
                                 rows, i + 1)
             ELSE load_rows_from([c EXCEPT !.routes_matrix =
                                               DictSet(@, c.route, inner_dict),
                                           !.route = rows[i + 2].route,
                                           !.inner_dict = EmptyDict,
                                           !.distances = distances],
                                 rows, i + 1)

\* DistanceMatrix.load_support_matrix_file on a file that exists
load_support_matrix_file(d, rows) ==
    LET d0 == [d EXCEPT !.op = "load_support_matrix_file", !.raised = "none",
                        !.file = rows]
    IN  IF Len(rows) < 2 THEN [d0 EXCEPT !.raised = "IndexError"]
        ELSE LET c == load_rows_from([route |-> rows[2].route,
                                      inner_dict |-> EmptyDict,
                                      routes_matrix |-> EmptyDict,
                                      distances |-> <<>>], rows, 1)
             IN  [d0 EXCEPT !.routes_matrix = c.routes_matrix,
                            !.distances = c.distances,
                            !.attributes = @ \cup {"routes_matrix", "distances"},
                            !.matrix = <<>>, !.matrix_is_none = FALSE,
                            !.origins_is_none = FALSE]

distance_matrix_load_support_matrix_file ==
    /\ dm.exists
    /\ \E rows \in SupportFiles :
        /\ dm' = load_support_matrix_file(dm, rows)
        /\ UNCHANGED <<attrs, has, last, nblocks, completed, gd, stops, route_status, osm, pkg, pkgs, the_stop, hv, an, adh, route_obj, fetch>>

DistanceMatrixNext ==
    \/ distance_matrix_new
    \/ distance_matrix_set_distances
    \/ distance_matrix_calculate_matrix_statistics

(***************************************************************************)
(* evaluate_sequence_adherence (route.py).                                 *)
(***************************************************************************)
NoAdherence ==
    [has |-> {}, number_of_planned_stops_not_in_actual_sequence |-> 0,
     number_of_actual_stops_not_in_planned_sequence |-> 0,
     sequence_adherence |-> NaN]

\* set(list)
SetOf(list) == {list[i] : i \in 1..Len(list)}

\* route.evaluate_sequence_adherence: r is the outcome, the exception raised
\* and the attributes of the Route after the call
sequence_adherence_of(a, h, old) ==
    IF "number_of_stops" \notin h["actual"]
    THEN [raised |-> "AttributeError", adh |-> old]
    ELSE IF a["actual"].number_of_stops = 0
    THEN [raised |-> "ValueError", adh |-> old]
    ELSE IF "number_of_stops" \notin h["planned"]
    THEN [raised |-> "AttributeError", adh |-> old]
    ELSE IF a["planned"].number_of_stops = 0
    THEN [raised |-> "ValueError", adh |-> old]
    ELSE LET p_not_a == Cardinality(SetOf(a["planned"].sequence_names)
                                    \ SetOf(a["actual"].sequence_names))
             a_not_p == Cardinality(SetOf(a["actual"].sequence_names)
                                    \ SetOf(a["planned"].sequence_names))
         IN  [raised |-> "none",
              adh |-> [has |-> {"number_of_planned_stops_not_in_actual_sequence",
                                "number_of_actual_stops_not_in_planned_sequence",
                                "sequence_adherence"},
                       number_of_planned_stops_not_in_actual_sequence |-> p_not_a,
                       number_of_actual_stops_not_in_planned_sequence |-> a_not_p,
                       sequence_adherence |->
                           NumAdd(One, NumMul(Num(-1),
                                              Rat(p_not_a + a_not_p,
                                                  a["planned"].number_of_stops)))]]

evaluate_sequence_adherence ==
    /\ nblocks < MaxBlocks
    /\ \E r \in {sequence_adherence_of(attrs, has, adh)} :
          /\ adh' = r.adh
          /\ last' = [NoCall EXCEPT !.op = "evaluate_sequence_adherence",
                                    !.raised = r.raised]
          /\ nblocks' = nblocks + 1
          /\ UNCHANGED <<attrs, has, completed, gd, stops, route_status, osm, pkg, pkgs, the_stop, hv, an, dm, route_obj, fetch>>

AdherenceNext ==
    set_planned_sequence \/ set_actual_sequence \/ evaluate_sequence_adherence

(***************************************************************************)
(* The vehicle and the bounding boxes of the Route.  <kind>_bbox_area is   *)
(* computed from <kind>_bbox alone, in the same try block and right after  *)
(* it, so it exists and changes exactly when <kind>_bbox does.             *)
(***************************************************************************)
Vehicles == {"van"}

\* route.__init__: vehicle=None, no bbox attribute
NoVehicleNoBbox ==
    [vehicle |-> NoneValue, has_bbox |-> {},
     bbox |-> [k \in Kinds |-> NoneValue]]

\* a step of the Route that is not one of its evaluate_* stages; cost is
\* the number of per-kind blocks it runs
RouteStep(op, raised, at, warned, cost) ==
    /\ nblocks + cost <= MaxBlocks
    /\ last' = [NoCall EXCEPT !.op = op, !.raised = raised, !.at = at,
                              !.warned = warned]
    /\ nblocks' = nblocks + cost
    /\ UNCHANGED <<attrs, has, completed, gd, stops, route_status, osm, pkg,
                   pkgs, the_stop, hv, an, dm, adh, fetch>>

\* variant of set_vehicle that starts the route over
set_vehicle_reset(vehicle) ==
    /\ route_obj' = [NoVehicleNoBbox EXCEPT !.vehicle = vehicle]
    /\ RouteStep("set_vehicle", "none", "-", {}, 1)

\* route.set_vehicle
set_vehicle(vehicle) ==
    /\ route_obj' = [route_obj EXCEPT !.vehicle = vehicle]
    /\ RouteStep("set_vehicle", "none", "-", {}, 1)

MinOf(S) == CHOOSE x \in S : \A y \in S : x <= y
MaxOf(S) == CHOOSE x \in S : \A y \in S : y <= x

\* one try block of find_bbox: [min lat, min lon, max lat, max lon] of the
\* sequence; without a sequence the AttributeError is caught, a warning
\* given and the bbox set to None; min() of an empty list raises ValueError
bbox_block(o, k) ==
    IF o.raised # "none" THEN o
    ELSE IF "sequence" \notin has[k]
    THEN [o EXCEPT !.obj.bbox[k] = NoneValue, !.obj.has_bbox = @ \cup {k},
                   !.warned = @ \cup {k}]
    ELSE IF attrs[k].sequence = <<>>
    THEN [o EXCEPT !.raised = "ValueError", !.at = k]
    ELSE LET sequence == attrs[k].sequence
             lat == {StopLocation(sequence[i])[1] : i \in 1..Len(sequence)}
             lon == {StopLocation(sequence[i])[2] : i \in 1..Len(sequence)}
         IN  [o EXCEPT !.obj.bbox[k] = <<MinOf(lat), MinOf(lon), MaxOf(lat), MaxOf(lon)>>,
                       !.obj.has_bbox = @ \cup {k}]

\* route.find_bbox
find_bbox ==
    \E o \in {bbox_block(bbox_block([obj |-> route_obj, raised |-> "none",
                                     at |-> "-", warned |-> {}],
                                    "planned"), "actual")} :
        /\ route_obj' = o.obj
        /\ RouteStep("find_bbox", o.raised, o.at, o.warned, 2)

\* the route as route.__init__ leaves it
FreshRoute ==
    [attrs |-> [k \in Kinds |-> NoAttrs], has |-> [k \in Kinds |-> {}],
     completed |-> [k \in Kinds |-> {}], raised |-> "none", at |-> "-",
     calls |-> [k \in Kinds |-> 0], warned |-> {}]

\* the route after set_planned_sequence(sequence),
\* evaluate_euclidean_distances(planned=True, actual=False),
\* evaluate_driving_distances(planned=True, actual=False,
\* planned_distance_matrix=matrix) and
\* evaluate_circuity_factor(planned=True, actual=False)
EvaluatedRoute(sequence, matrix) ==
    ByValue(LAMBDA o1 :
        ByValue(LAMBDA o2 :
            ByValue(LAMBDA o3 : circuity_factor(o3, TRUE, FALSE),
                    driving_distances(o2, TRUE, FALSE, "osm", FALSE, matrix,
                                      NoMatrix, [i \in 1..MaxLen |-> AnyReply])),
            euclidean_distances(o1, TRUE, FALSE)),
        set_sequence(FreshRoute, "planned", sequence))

\* the routes whose setters are called: new ones, and ones whose planned
\* metrics have all been evaluated
RoutesWithMetrics ==
    {FreshRoute}
        \cup {o \in {EvaluatedRoute(sequence, matrix) :
                        sequence \in SequenceInputs,
                        matrix \in MatrixArgs \ {NoMatrix}} : o.raised = "none"}

SettersNext ==
    \/ set_planned_sequence
    \/ set_actual_sequence
    \/ \E vehicle \in Vehicles : set_vehicle(vehicle)
    \/ find_bbox

(***************************************************************************)
(* The script fetch_osm_dd.py.  The CSV file is a header line followed by  *)
(* rows route, stop, lat, lon, distance, duration, grouped by route; a     *)
(* cell of the file is text, a cell the script has written is a float      *)
(* until the file is saved.  The row of the model keeps the route and the  *)
(* two cells the script fills in.                                          *)
(***************************************************************************)
NotCalculated == <<"str", "-">>

\* str() of the floats the script writes
FloatText(x) ==
    CASE x = Num(30006) -> "30006.0"
      [] x = Num(60) -> "60.0"

CsvRow(route, filled) ==
    [route |-> route,
     distance |-> IF filled THEN <<"str", "30006.0">> ELSE NotCalculated,
     duration |-> IF filled THEN <<"str", "60.0">> ELSE NotCalculated]

\* the data rows of a file: one route, or a first route followed by a second
CsvFiles ==
    UNION {{[i \in 1..m |-> CsvRow(IF i <= split THEN "R1" ELSE "R2", filled[i])] :
               split \in 1..m, filled \in [1..m -> BOOLEAN]} : m \in 1..MaxRows}

NoFetch ==
    [file |-> <<>>, before |-> <<>>, data |-> <<>>, n |-> 0, ran |-> FALSE,
     raised |-> "none", saved |-> FALSE, requests |-> <<>>]

\* fetch_osm_dd.drive_distance_osm: (km, min) or ValueError
fetch_drive_distance_osm(reply) ==
    IF reply.code # "Ok" THEN Raised("ValueError", <<"osm">>)
    ELSE Returned(NumDiv(Num(reply.routes[1].distance), Num(1000)),
                  NumDiv(Num(reply.routes[1].duration), Num(60)), <<"osm">>)

\* round(x, ndigits) on the values the service returns, which are integers
round(x, ndigits) == x

\* data[i][4] != "-"
RowIsCalculated(row) == row.distance # NotCalculated

\* the loop of calculate_distance_duration from line i on; data[1] is the
\* first row after the header, so that data[k] of the code is row k and
\* data[i + 1] exists for i < Len(data); c holds the rows, the route and
\* route_begin_index of the loop, the requests sent as <<origin row,
\* destination row>> and the exception raised
RECURSIVE calculate_from(_, _, _, _)
calculate_from(c, i, n, replies) ==
    IF i >= n \/ c.raised # "none" THEN c
    ELSE IF RowIsCalculated(c.data[i])
    THEN calculate_from([c EXCEPT !.route_begin_index = i], i + 1, n, replies)
    ELSE IF i + 1 > Len(c.data)
    THEN [c EXCEPT !.raised = "IndexError"]
    ELSE LET same == c.data[i + 1].route = c.route
             destination == IF same THEN i + 1 ELSE c.route_begin_index
             r == fetch_drive_distance_osm(replies[i])
             asked == [c EXCEPT !.requests = Append(@, <<i, destination>>)]
         IN  IF r.raised # "none"
             THEN \* drive_distance_osm saves the rows before it raises
                  [asked EXCEPT !.raised = r.raised, !.saved = TRUE]
             ELSE calculate_from(
                      [asked EXCEPT
                          !.data[i].distance = <<"float", round(r.distance, 3)>>,
                          !.data[i].duration = <<"float", round(r.duration, 0)>>,
                          !.route = IF same THEN @ ELSE c.data[i + 1].route,
                          !.route_begin_index = IF same THEN @ ELSE i + 1],
                      i + 1, n, replies)

\* fetch_osm_dd.calculate_distance_duration
calculate_distance_duration(data, n, replies) ==
    calculate_from([data |-> data, route |-> data[1].route,
                    route_begin_index |-> 1, requests |-> <<>>,
                    raised |-> "none", saved |-> FALSE],
                   1, n, replies)

\* fetch_osm_dd.save_results: csv.writer writes the str() of each cell
save_results(data) ==
    [i \in 1..Len(data) |->
        [data[i] EXCEPT
            !.distance = IF @[1] = "float" THEN <<"str", FloatText(@[2])>> ELSE @,
            !.duration = IF @[1] = "float" THEN <<"str", FloatText(@[2])>> ELSE @]]

\* the file the script finds
fetch_file_new ==
    /\ fetch = NoFetch
    /\ \E file \in CsvFiles : fetch' = [NoFetch EXCEPT !.file = file]
    /\ UNCHANGED <<attrs, has, last, nblocks, completed, gd, stops, route_status, osm, pkg, pkgs, the_stop, hv, an, dm, adh, route_obj>>

\* the script: read_coord_file, calculate_distance_duration on the first n
\* lines, save_results when it returns; only KeyboardInterrupt is caught
fetch_main ==
    /\ fetch.file # <<>>
    /\ \E n \in 1..(Len(fetch.file) + 1), replies \in [1..MaxRows -> RouteReplies] :
       \E c \in {calculate_distance_duration(fetch.file, n, replies)} :
          fetch' = [file |-> IF c.raised = "none" \/ c.saved
                             THEN save_results(c.data) ELSE fetch.file,
                    data |-> c.data, n |-> n, ran |-> TRUE,
                    raised |-> c.raised,
                    saved |-> (c.raised = "none" \/ c.saved),
                    requests |-> c.requests,
                    before |-> fetch.file]
    /\ UNCHANGED <<attrs, has, last, nblocks, completed, gd, stops, route_status, osm, pkg, pkgs, the_stop, hv, an, dm, adh, route_obj>>

FetchNext == fetch_file_new \/ fetch_main

ObjectsInit ==
    /\ fetch = NoFetch
    /\ route_obj = NoVehicleNoBbox
    /\ adh = NoAdherence
    /\ dm = NoDistanceMatrix
    /\ an = NoAnalysis
    /\ hv = NoHaversineCall
    /\ the_stop = NoStop
    /\ pkgs = <<>>
    /\ osm = NoOsmCall
    /\ pkg = NoPackage

\* a route under construction with its sequences and metrics
Init ==
    /\ RouteInit
    /\ gd = NoDistanceCall
    /\ stops = DefaultStops
    /\ route_status = NoStatus
    /\ ObjectsInit

Next == RouteNext

Spec == Init /\ [][Next]_vars

\* sequences, bounding boxes and the vehicle set in any order on a route
\* with or without metrics
InitSetters ==
    /\ \E o \in RoutesWithMetrics :
          attrs = o.attrs /\ has = o.has /\ completed = o.completed
    /\ last = NoCall
    /\ nblocks = 0
    /\ gd = NoDistanceCall
    /\ stops = DefaultStops
    /\ route_status = NoStatus
    /\ ObjectsInit

SpecSetters == InitSetters /\ [][SettersNext]_vars

\* driving distances read from distance matrices
SpecMatrix == Init /\ [][MatrixNext]_vars

\* the fetch_osm_dd script run again and again on a CSV file
SpecFetch == Init /\ [][FetchNext]_vars

\* a route with metrics whose sequences are replaced and whose euclidean
\* distances and circuity factors are evaluated again
StaleNext ==
    \/ set_planned_sequence
    \/ set_actual_sequence
    \/ evaluate_euclidean_distances
    \/ evaluate_circuity_factor

SpecStale == InitSetters /\ [][StaleNext]_vars

SupportMatrixNext ==
    \/ distance_matrix_new
    \/ distance_matrix_load_support_matrix_file
    \/ distance_matrix_calculate_matrix_statistics

\* a DistanceMatrix that loads support matrix files
SpecSupportMatrix == Init /\ [][SupportMatrixNext]_vars

\* the dispatchers called with every mode, location pair and reply
SpecDistance == Init /\ [][DistanceNext]_vars

\* routes over every combination of stop types and package statuses
InitStatus ==
    /\ RouteInit
    /\ gd = NoDistanceCall
    /\ stops \in [StopNames -> Stops]
    /\ route_status = NoStatus
    /\ ObjectsInit

SpecStatus == InitStatus /\ [][StatusNext]_vars

\* drive_distance_osm called with every location pair and reply
SpecOsm == Init /\ [][OsmNext]_vars

\* a Package constructed and modified with every status
SpecPackage == Init /\ [][PackageNext]_vars

\* a Stop constructed over packages whose status is modified at any time
SpecStop == Init /\ [][StopNext]_vars

\* haversine called on every pair of the tabulated points
SpecHaversine == Init /\ [][HaversineNext]_vars

\* an analysis over every list of routes
SpecAnalysis == Init /\ [][AnalysisNext]_vars

\* a DistanceMatrix constructed with and without a matrix
SpecDistanceMatrix == Init /\ [][DistanceMatrixNext]_vars

\* the two sequences set and their adherence evaluated in any order
SpecAdherence == Init /\ [][AdherenceNext]_vars

(***************************************************************************)
(* Properties.                                                             *)
(***************************************************************************)
SetOps == {"set_planned_sequence", "set_actual_sequence"}

\* the block of kind k was entered by the last call
Ran(k) ==
    IF k = "planned" THEN last.planned
    ELSE last.actual /\ (last.raised = "none" \/ last.at = "actual")

\* the last call raised inside the block of kind k
FailedAt(k) == last.raised # "none" /\ last.at = k

\* the sum of an array, added from its last element to its first
RECURSIVE SumTo(_, _)
SumTo(arr, i) == IF i = 0 THEN Zero ELSE NumAdd(SumTo(arr, i - 1), arr[i])

\* C1: every stop held in planned_sequence and in actual_sequence is a
\* member of the route's stops mapping, and a set_*_sequence call either
\* stores its sequence or fails with ValueError.
C1_SequencesHoldOnlyRouteStops ==
    /\ \A k \in Kinds :
          "sequence" \in has[k] =>
              \A i \in 1..Len(attrs[k].sequence) : attrs[k].sequence[i] \in StopNames
    /\ last.op \in SetOps => last.raised \in {"none", "ValueError"}

\* C2: a circuity attribute of a kind exists only if the euclidean and the
\* driving block of that kind have both run to their end, and
\* evaluate_circuity_factor fails for a kind for which they have not.
C2_CircuityOnlyAfterBothStages ==
    \A k \in Kinds :
        /\ has[k] \cap CircuityAttrs # {} => {"euclidean", "driving"} \subseteq completed[k]
        /\ (last.op = "evaluate_circuity_factor" /\ Ran(k)
            /\ ~({"euclidean", "driving"} \subseteq completed[k])) => FailedAt(k)

\* C3: evaluate_euclidean_distances for a kind whose sequence is empty
\* stores an empty array, warns, and does not raise.
C3_EmptyEuclideanWarnsOnly ==
    \A k \in Kinds :
        (last.op = "evaluate_euclidean_distances" /\ Ran(k)
         /\ "sequence" \in has[k] /\ attrs[k].sequence = <<>>)
        => /\ ~FailedAt(k)
           /\ k \in last.warned
           /\ "euclidean_distances" \in has[k]
           /\ attrs[k].euclidean_distances = <<>>

\* C4: evaluate_driving_distances for a kind whose sequence is empty fails
\* with ValueError, through the dispatcher and with a distance matrix, and
\* has called no distance provider for that kind.
C4_EmptyDrivingFails ==
    \A k \in Kinds :
        (last.op = "evaluate_driving_distances" /\ Ran(k)
         /\ "sequence" \in has[k] /\ attrs[k].sequence = <<>>)
        => /\ FailedAt(k)
           /\ last.raised = "ValueError"
           /\ last.calls[k] = 0

C4_Witness ==
    /\ last.op = "evaluate_driving_distances"
    /\ \E k \in Kinds \ last.matrices :
          /\ Ran(k) /\ "sequence" \in has[k] /\ attrs[k].sequence = <<>>
          /\ last.raised = "ValueError" /\ last.at = k

\* C5: right after evaluate_circuity_factor has stored the circuity array
\* of a kind, entry i is 1 when euclidean[i] is 0 and otherwise the number
\* that multiplied by euclidean[i] gives driving[i] (NaN for a NaN driving
\* distance).
C5_CircuityRatios ==
    \A k \in Kinds :
        (last.op = "evaluate_circuity_factor" /\ Ran(k)
         /\ ~(FailedAt(k) /\ last.raised = "AttributeError"))
        => \A i \in 1..Len(attrs[k].circuity_factors) :
              LET x == attrs[k].driving_distances[i]
                  y == attrs[k].euclidean_distances[i]
                  c == attrs[k].circuity_factors[i]
              IN  IF IsZero(y) THEN c = One
                  ELSE IF IsNaN(x) THEN IsNaN(c)
                  ELSE IsFinite(c) /\ NumMul(c, y) = x

C5_Witness ==
    /\ last.op = "evaluate_circuity_factor" /\ last.raised = "none"
    /\ \E k \in Kinds :
          /\ Ran(k)
          /\ \E i \in 1..Len(attrs[k].circuity_factors) :
                /\ IsZero(attrs[k].euclidean_distances[i])
                /\ ~IsZero(attrs[k].driving_distances[i])
                /\ attrs[k].circuity_factors[i] = One

\* C6: right after the circuity block of a kind has run to its end,
\* total_<kind>_circuity_factor is the sum of the driving distances divided
\* by the sum of the euclidean distances, and it is an attribute of its own
\* next to the mean of the per-transition ratios.
C6_AggregateCircuity ==
    \A k \in Kinds :
        (last.op = "evaluate_circuity_factor" /\ Ran(k) /\ ~FailedAt(k))
        => LET D == SumTo(attrs[k].driving_distances,
                          Len(attrs[k].driving_distances))
               E == SumTo(attrs[k].euclidean_distances,
                          Len(attrs[k].euclidean_distances))
               t == attrs[k].total_circuity_factor
           IN  /\ {"total_circuity_factor", "mean_circuity_factor"} \subseteq has[k]
               /\ IF IsNaN(D) \/ (IsZero(D) /\ IsZero(E)) THEN IsNaN(t)
                  ELSE IF IsZero(E) THEN t = Inf
                  ELSE IsFinite(t) /\ NumMul(t, E) = D

C6_Witness ==
    /\ last.op = "evaluate_circuity_factor" /\ last.raised = "none"
    /\ \E k \in Kinds :
          /\ Ran(k)
          /\ attrs[k].driving_distances = <<Num(20004), Num(20004)>>
          /\ attrs[k].euclidean_distances = <<Num(10002), Num(10002)>>
          /\ attrs[k].total_circuity_factor = Num(2)

\* C7: right after the euclidean block of a kind with a sequence of n > 0
\* stops has run, the array has n entries, entry i is the haversine
\* distance from stop i to stop (i + 1) mod n, and the cached total, mean,
\* max and min are the sum, mean, maximum and minimum of the array.
C7_EuclideanCycle ==
    \A k \in Kinds :
        (last.op = "evaluate_euclidean_distances" /\ Ran(k)
         /\ "sequence" \in has[k] /\ attrs[k].sequence # <<>>)
        => LET sequence == attrs[k].sequence
               n == Len(sequence)
               arr == attrs[k].euclidean_distances
               Loc(i) == StopLocation(sequence[i])
           IN  /\ ~FailedAt(k)
               /\ Len(arr) = n
               /\ \A i \in 1..n :
                     arr[i] = haversine(Loc(i)[1], Loc(i)[2],
                                        Loc((i % n) + 1)[1], Loc((i % n) + 1)[2])
               /\ attrs[k].total_euclidean_distance = SumTo(arr, n)
               /\ NumMul(attrs[k].avg_euclidean_distance, Num(n)) = SumTo(arr, n)
               /\ \E i \in 1..n : attrs[k].max_euclidean_distance = arr[i]
               /\ \A i \in 1..n : NumLeq(arr[i], attrs[k].max_euclidean_distance)
               /\ \E i \in 1..n : attrs[k].min_euclidean_distance = arr[i]
               /\ \A i \in 1..n : NumLeq(attrs[k].min_euclidean_distance, arr[i])

C7_Witness ==
    /\ last.op = "evaluate_euclidean_distances" /\ last.raised = "none"
    /\ \E k \in Kinds :
          /\ Ran(k)
          /\ attrs[k].sequence = <<"a", "b">>
          /\ attrs[k].euclidean_distances = <<Num(10002), Num(10002)>>
          /\ attrs[k].total_euclidean_distance = Num(20004)

\* C8: evaluate_route_status on a route whose delivery stops hold no
\* package (or that has no delivery stop) does not raise and reports 0 for
\* avg_packages_per_stop and for the three package percentages.
NoPackagesOnDeliveryStops ==
    \A s \in StopNames :
        stops[s].location_type = "delivery" => stops[s].packages = <<>>

C8_ZeroPackagesReportZero ==
    (route_status.evaluated /\ NoPackagesOnDeliveryStops)
    => /\ route_status.raised = "none"
       /\ route_status.avg_packages_per_stop = Zero
       /\ route_status.rejected_packages_percentage = Zero
       /\ route_status.delivered_packages_percentage = Zero
       /\ route_status.failed_attempted_packages_percentage = Zero

C8_Witness ==
    /\ route_status.evaluated /\ NoPackagesOnDeliveryStops
    /\ \E s \in StopNames : stops[s].location_type = "delivery"
    /\ \E s \in StopNames : stops[s].packages # <<>>
    /\ route_status.avg_packages_per_stop = Zero
    /\ "rejected" \in route_status.warnings

C11_OsmErrorIsRaisedOnce ==
    (osm.impl # "none" /\ osm.entry = "drive_distance_osm")
    => /\ Len(osm.requests) = 1
       /\ osm.reply.code # "Ok" =>
             /\ osm.result.raised = "RuntimeError"
             /\ osm.result.returns # "pair"
             /\ osm.message = <<osm.reply.code, osm.origin, osm.destination>>

\* C12: the status of a Package is always one of the four values, and
\* modify_status with any other value raises ValueError.
C12_StatusStaysInEnum ==
    /\ pkg.exists => pkg.status \in PackageStatuses
    /\ (pkg.op = "modify_status" /\ pkg.arg \notin PackageStatuses)
       => pkg.raised = "ValueError"

\* C13: constructing a Package with a status outside the four values raises
\* ValueError and yields no object; with one of the four it succeeds and
\* the object holds that status.
C13_ConstructorChecksStatus ==
    pkg.op = "__init__"
    => IF pkg.arg \in PackageStatuses
       THEN pkg.raised = "none" /\ pkg.exists /\ pkg.status = pkg.arg
       ELSE pkg.raised = "ValueError" /\ ~pkg.exists

C13_Witness ==
    /\ pkg.op = "__init__" /\ pkg.arg = "invalid status"
    /\ pkg.raised = "ValueError" /\ ~pkg.exists

\* C14: a Stop built from a list or a mapping of packages reports the size
\* of that collection as number_of_packages, and its delivered, rejected,
\* failed-attempted and to-be-delivered counts sum to number_of_packages,
\* whatever modify_status calls were made on its packages.
C14_CountsPartitionPackages ==
    the_stop.exists
    => /\ number_of_packages(the_stop) = Len(pkgs)
       /\ number_of_delivered_packages(the_stop) + number_of_rejected_packages(the_stop)
          + number_of_failed_attempted_packages(the_stop)
          + number_of_to_be_delivered_packages(the_stop) = number_of_packages(the_stop)

\* C15: total_volume_of_packages is the sum of the volumes of all packages
\* of the stop whatever their status, which is also the sum of the delivered,
\* rejected, failed-attempted and to-be-delivered volumes.
C15_TotalVolumeIsSumOfAll ==
    the_stop.exists
    => /\ total_volume_of_packages(the_stop, pkgs) = volume_of(the_stop.packages_list, pkgs, StatusInputs)
       /\ total_volume_of_packages(the_stop, pkgs)
          = total_volume_of_delivered_packages(the_stop, pkgs)
            + total_volume_of_rejected_packages(the_stop, pkgs)
            + total_volume_of_failed_attempted_packages(the_stop, pkgs)
            + volume_of(the_stop.packages_list, pkgs, {"to-be-delivered"})

\* C16: the Stop constructor raises ValueError when the start of the time
\* window is after its end or the location type is not depot, pickup or
\* delivery, and then no Stop exists.
C16_ConstructorChecksArguments ==
    (the_stop.called /\ (the_stop.arg_time_window[1] > the_stop.arg_time_window[2]
                   \/ the_stop.arg_location_type \notin LocationTypes))
    => the_stop.raised = "ValueError" /\ ~the_stop.exists

C16_Witness ==
    /\ the_stop.called /\ the_stop.arg_location_type = "warehouse"
    /\ the_stop.arg_time_window = <<12, 12>>
    /\ the_stop.raised = "ValueError" /\ ~the_stop.exists
    /\ Len(pkgs) = MaxPackages

\* C17: get_distance in mode "osm" with (lat, lon) locations sends one
\* request whose path is lon1,lat1;lon2,lat2: the longitude before the
\* latitude for each point, the origin first.
C17_OsmRequestLonBeforeLat ==
    (osm.impl # "none" /\ osm.entry = "get_distance")
    => osm.requests = <<<<osm.origin[2], osm.origin[1],
                          osm.destination[2], osm.destination[1]>>>>

\* C18: haversine returns for every pair of points (it raises nothing), its
\* value is the same with the two points exchanged, it is never negative,
\* and it is 0 when the two points are the same.
C18_HaversineTotalSymmetric ==
    hv.called
    => /\ hv.result.raised = "none"
       /\ hv.result = haversine_double(hv.point2[1], hv.point2[2],
                                       hv.point1[1], hv.point1[2])
       /\ hv.result.value[1] >= 0
       /\ hv.point1 = hv.point2 => hv.result.value = DoubleZero

\* C19: calculate_routes_status completes for every list of routes with the
\* totals being the sums of the routes' counts, and with zero packages in
\* total the percentages are 0 and no division-by-zero error is raised.
C19_RoutesStatusCompletes ==
    an.op = "calculate_routes_status"
    => LET positions == RoutesDictValues(an.routes)
       IN  /\ an.raised = "none"
           /\ an.total_number_of_packages
              = SumStatus(an.routes, positions, "number_of_packages")
           /\ an.delivered_packages
              = SumStatus(an.routes, positions, "number_of_delivered_packages")
           /\ an.total_number_of_packages = 0
              => /\ an.delivered_packages_percentage = Zero
                 /\ an.attempted_packages_percentage = Zero
                 /\ an.rejected_packages_percentage = Zero

\* the distances stored in a matrix dictionary, row by row
MatrixDistances(matrix) ==
    IF matrix = <<>> THEN <<>>
    ELSE [k \in 1..(Len(matrix) * Len(matrix[1].row)) |->
             matrix[((k - 1) \div Len(matrix[1].row)) + 1]
                 .row[((k - 1) % Len(matrix[1].row)) + 1].distance]

\* C20: a DistanceMatrix constructed with a matrix dictionary exists with
\* max_distance, min_distance, average_distance, std_distance and
\* n_distances computed from the distances of that matrix, and with
\* origins_names and destinations_names holding its keys.
C20_MatrixIsAnalysed ==
    (dm.op = "__init__" /\ dm.arg_given /\ dm.matrix # <<>>)
    => LET distances == MatrixDistances(dm.matrix)
       IN  /\ dm.raised = "none" /\ dm.exists
           /\ dm.max_distance = np_max(distances)
           /\ dm.min_distance = np_min(distances)
           /\ dm.average_distance = np_mean(distances)
           /\ dm.std_distance = np_std(distances)
           /\ dm.n_distances = <<Len(distances)>>
           /\ dm.origins_names = [i \in 1..Len(dm.matrix) |-> dm.matrix[i].name]
           /\ dm.destinations_names
              = [i \in 1..Len(dm.matrix[1].row) |-> dm.matrix[1].row[i].name]

\* number of positions at which the actual sequence holds the stop the
\* planned sequence holds
SamePositions(planned_names, actual_names) ==
    Cardinality({i \in 1..Len(planned_names) :
                     i <= Len(actual_names) /\ actual_names[i] = planned_names[i]})

\* C21: evaluate_sequence_adherence sets sequence_adherence to the number
\* of positions at which the actual sequence holds the same stop as the
\* planned sequence, divided by the number of planned stops; the value is
\* between 0 and 1.
C21_AdherenceIsPositionalShare ==
    (last.op = "evaluate_sequence_adherence" /\ last.raised = "none")
    => /\ adh.sequence_adherence
          = Rat(SamePositions(attrs["planned"].sequence_names,
                              attrs["actual"].sequence_names),
                attrs["planned"].number_of_stops)
       /\ NumLeq(Zero, adh.sequence_adherence)
       /\ NumLeq(adh.sequence_adherence, One)

\* the exceptions a distance provider raises through the dispatcher
ProviderErrors == {"RuntimeError", "IndexError", "ValueError"}

\* C22: right after evaluate_driving_distances has taken a kind with a
\* non-empty sequence of n stops through the dispatcher (no distance matrix)
\* and no provider failed, the kind has exactly n driving distances and
\* entry i is the dispatcher's distance from stop i to stop (i + 1) mod n,
\* with multiprocessing off as with multiprocessing on.
C22_DispatchedDrivingCycle ==
    \A k \in Kinds :
        (last.op = "evaluate_driving_distances" /\ Ran(k)
         /\ k \notin last.matrices
         /\ "sequence" \in has[k] /\ attrs[k].sequence # <<>>
         /\ ~(FailedAt(k) /\ last.raised \in ProviderErrors))
        => LET sequence == attrs[k].sequence
               n == Len(sequence)
               arr == attrs[k].driving_distances
               Loc(i) == StopLocation(sequence[i])
           IN  /\ ~FailedAt(k)
               /\ "driving_distances" \in has[k]
               /\ Len(arr) = n
               /\ \E mode \in RouteModes, replies \in [1..MaxLen -> RouteReplies] :
                     \A i \in 1..n :
                         arr[i] = get_distance(Loc(i), Loc((i % n) + 1),
                                               mode, replies[i]).distance

\* C23: after evaluate_route_status the package counts are taken over the
\* delivery stops only, the delivery and pickup stops together are all the
\* stops, and each of the three percentages is 100 * count /
\* number_of_packages, lies in [0, 100], the three summing to at most 100.
C23_StatusPercentages ==
    route_status.evaluated
    => LET delivery == {s \in StopNames : stops[s].location_type = "delivery"}
           total == route_status.number_of_packages
           Share(count) == IF total = 0 THEN Zero ELSE Rat(100 * count, total)
           rejected == route_status.rejected_packages_percentage
           delivered == route_status.delivered_packages_percentage
           attempted == route_status.failed_attempted_packages_percentage
       IN  /\ route_status.raised = "none"
           /\ total = SumOver(delivery,
                              [s \in delivery |-> Len(stops[s].packages)])
           /\ route_status.number_of_delivery_stops
                + route_status.number_of_pickup_stops = Cardinality(StopNames)
           /\ rejected = Share(route_status.number_of_rejected_packages)
           /\ delivered = Share(route_status.number_of_delivered_packages)
           /\ attempted = Share(route_status.number_of_failed_attempted_packages)
           /\ \A p \in {rejected, delivered, attempted} :
                 NumLeq(Zero, p) /\ NumLeq(p, Num(100))
           /\ NumLeq(NumAdd(NumAdd(rejected, delivered), attempted), Num(100))

\* the attributes of a sequence kind that the evaluate_* stages compute
MetricAttrs ==
    {"euclidean_distances", "total_euclidean_distance",
     "avg_euclidean_distance", "max_euclidean_distance",
     "min_euclidean_distance", "driving_distances", "total_driving_distance",
     "avg_driving_distance", "max_driving_distance", "min_driving_distance"}
        \cup CircuityAttrs

MetricsOf(a, h) ==
    [k \in Kinds |-> [n \in MetricAttrs |->
        IF n \in h[k] THEN <<"set", a[k][n]>> ELSE <<"unset">>]]

SetterOps == {"set_planned_sequence", "set_actual_sequence", "set_vehicle"}

\* C24: a step of set_planned_sequence, set_actual_sequence or set_vehicle
\* changes nothing but the sequence of its kind (with its stop count and
\* name list) or the vehicle: every euclidean, driving, circuity and
\* bounding-box attribute, the other kind's sequence and, for the sequence
\* setters, the vehicle keep their values.
C24_SettersKeepMetrics ==
    [][last'.op \in SetterOps
       => /\ MetricsOf(attrs', has') = MetricsOf(attrs, has)
          /\ route_obj'.bbox = route_obj.bbox
          /\ route_obj'.has_bbox = route_obj.has_bbox
          /\ last'.op = "set_vehicle"
                => attrs' = attrs /\ has' = has
          /\ last'.op # "set_vehicle" => route_obj' = route_obj
          /\ last'.op = "set_planned_sequence"
                => attrs'.actual = attrs.actual /\ has'.actual = has.actual
          /\ last'.op = "set_actual_sequence"
                => attrs'.planned = attrs.planned /\ has'.planned = has.planned]_vars

\* the planned sequence has been replaced while the bounding box and the
\* euclidean, driving and circuity metrics of the former sequence are in
\* place
C24_Witness ==
    /\ last.op = "set_planned_sequence" /\ last.raised = "none"
    /\ attrs.planned.sequence = <<"a">>
    /\ route_obj.bbox.planned = <<0, 0, 0, 90>>
    /\ MetricAttrs \subseteq has.planned
    /\ attrs.planned.euclidean_distances = <<Num(10002), Num(10002)>>
    /\ attrs.planned.driving_distances = <<Num(20004), Num(20004)>>
    /\ attrs.planned.circuity_factors = <<Num(2), Num(2)>>

\* what a distance matrix holds for a stop of the route, as a number
MatrixNumber(matrix, s) ==
    IF RouteName \in DOMAIN matrix /\ s \in DOMAIN matrix[RouteName]
    THEN LET x == matrix[RouteName][s][DistanceKey]
         IN  IF x[1] = "str" THEN Num(ParseDigits(x[2])) ELSE x[2]
    ELSE NaN

C26_ReprocessingSkipsFilledRows ==
    fetch.ran
    => /\ \A i \in 1..Len(fetch.before) :
             RowIsCalculated(fetch.before[i])
             => /\ fetch.data[i] = fetch.before[i]
                /\ \A q \in 1..Len(fetch.requests) : fetch.requests[q][1] # i
       /\ fetch.raised # "ValueError"
             => \A i \in 1..(fetch.n - 1) :
                   ~RowIsCalculated(fetch.before[i])
                   => /\ fetch.data[i].distance # NotCalculated
                      /\ fetch.data[i].duration # NotCalculated

\* C27: whatever modify_status calls have been made on the packages of a
\* Stop, each of its four counts is the number of packages of packages_list
\* that hold that status now, so that a count is that of the packages the
\* volume of the same status is summed over.
C27_CountsFollowCurrentStatus ==
    the_stop.exists
    => \A status \in PackageStatuses :
          Count(the_stop.status_list, status)
              = Cardinality({i \in 1..Len(the_stop.packages_list) :
                                pkgs[the_stop.packages_list[i]].status = status})

\* C28: right after evaluate_circuity_factor has stored the circuity array
\* of a kind, the array is as long as the euclidean and as the driving
\* array of that kind, which are the ones the call read: no transition is
\* dropped.
C28_CircuityKeepsEveryTransition ==
    \A k \in Kinds :
        (last.op = "evaluate_circuity_factor" /\ Ran(k)
         /\ ~(FailedAt(k) /\ last.raised = "AttributeError"))
        => /\ "circuity_factors" \in has[k]
           /\ Len(attrs[k].circuity_factors) = Len(attrs[k].euclidean_distances)
           /\ Len(attrs[k].circuity_factors) = Len(attrs[k].driving_distances)

SequenceAttrs == {"sequence", "number_of_stops", "sequence_names"}

\* C29: a set_planned_sequence or set_actual_sequence call that raises
\* leaves every attribute of the Route as it was, and after every step a
\* kind has its sequence, its stop count and its name list together, the
\* count being the length of the sequence and the names those of its stops.
C29_SequenceCountNamesAgree ==
    [][/\ (last'.op \in {"set_planned_sequence", "set_actual_sequence"}
           /\ last'.raised # "none")
          => attrs' = attrs /\ has' = has
       /\ \A k \in Kinds :
             /\ has'[k] \cap SequenceAttrs \in {{}, SequenceAttrs}
             /\ "sequence" \in has'[k]
                => /\ attrs'[k].number_of_stops = Len(attrs'[k].sequence)
                   /\ attrs'[k].sequence_names = attrs'[k].sequence]_vars

\* a set_planned_sequence call has failed on a route that has a planned
\* sequence of two stops
C29_Witness ==
    /\ last.op = "set_planned_sequence" /\ last.raised = "KeyError"
    /\ attrs.planned.sequence = <<"a", "b">>
    /\ attrs.planned.number_of_stops = 2
    /\ attrs.planned.sequence_names = <<"a", "b">>

\* C30: after load_support_matrix_file has read the rows of a file grouped
\* by route, routes_matrix has an entry for every route of the file, the
\* entry of a route has an item for every row of that route, the first and
\* the last row of the file included, and distances holds the distance of
\* every row, in order.
C30_SupportMatrixHoldsEveryRow ==
    (dm.op = "load_support_matrix_file" /\ dm.file # <<>>)
    => /\ dm.raised = "none"
       /\ DOMAIN dm.routes_matrix = {dm.file[i].route : i \in 1..Len(dm.file)}
       /\ \A i \in 1..Len(dm.file) :
             /\ dm.file[i].route \in DOMAIN dm.routes_matrix
             /\ dm.file[i].stop \in DOMAIN dm.routes_matrix[dm.file[i].route]
       /\ Len(dm.distances) = Len(dm.file)
       /\ \A i \in 1..Len(dm.file) :
             i <= Len(dm.distances)
             => dm.distances[i] = Num(ParseDigits(dm.file[i].distance[2]))

====
